---- MODULE Spec2Model ----
(***************************************************************************)
(* The tracking-copy state layer of the execution engine                   *)
(* (engine-core/src/tracking_copy/mod.rs): TrackingCopyCache, TrackingCopy *)
(* (get / read / write / add / fork / effect / query) and the query loop.  *)
(* Values are carried as CLValue (type tag + serialized bytes), integers   *)
(* as little-endian byte strings of their real width.                      *)
(***************************************************************************)
EXTENDS Integers, Sequences, FiniteSets, TLC

VARIABLES
    reader,     \* the immutable global-state snapshot: normalized Key -> StoredValue
    tcs,        \* the chain of tracking copies: tcs[1] over reader, tcs[i+1] = fork of tcs[i]
    last,       \* the last TrackingCopy call and what it returned
    steps,      \* number of TrackingCopy calls made so far
    query,      \* the state of the Query loop of TrackingCopy::query, one iteration per step
    cache,      \* a stand-alone TrackingCopyCache driven through its public methods
    seen,       \* largest element size handed to insert_read of `cache` so far
    env,        \* what a behaviour works with: the value stored, the values written, the operand added
    recency,    \* keys of the read cache of `cache` by their last use, least recent first
    wire,       \* a value on its way through from_t, a serialization, deserialize and into_t
    run,        \* one exec: the stack of Runtimes over tcs[1], how `call` ended, what exec returned
    twin        \* a tracking copy with another max_cache_size, given the calls tcs[1] is given

vars == <<reader, tcs, last, steps, query, cache, seen, env, recency, wire, run, twin>>

----------------------------------------------------------------------------
(* Bounds of the model. *)

\* TrackingCopy calls per behaviour of Spec.
MaxOps == 3
\* Depth of the fork chain (1 = no fork).
MaxDepth == 2
\* Longest path handed to query.
MaxPath == 2
\* Host calls one exec makes before its guest ends.
MaxHostCalls == 3
\* Depth of the stack of Runtimes (1 = no sub_call).
MaxCallDepth == 2

----------------------------------------------------------------------------
(* Bytes. *)

Rep(b, n) == [i \in 1..n |-> b]

Pad(s, n) == IF Len(s) >= n THEN s ELSE s \o Rep(0, n - Len(s))

RECURSIVE Trim(_)
\* Drops the most significant zero bytes of a little-endian number.
Trim(s) ==
    IF s = <<>> THEN <<>>
    ELSE IF s[Len(s)] = 0 THEN Trim(SubSeq(s, 1, Len(s) - 1))
    ELSE s

\* u32, little-endian (lengths in the model stay below 256).
U32Bytes(n) == <<n, 0, 0, 0>>

----------------------------------------------------------------------------
(* CLType: the tags the tracking copy dispatches on. *)

IntTypes == {"I32", "U64", "U128", "U256", "U512"}

\* types::named_key_type(): Tuple2(String, Key)
NamedKeyType == "Tuple2(String,Key)"

\* Width of the native integer, in bytes.
IntWidth(t) ==
    CASE t = "I32" -> 4
      [] t = "U64" -> 8
      [] t = "U128" -> 16
      [] t = "U256" -> 32
      [] t = "U512" -> 64

\* A native integer of width w given by a small offset from 0: o >= 0 is o,
\* o < 0 is 2^(8w) + o (for I32, the two's complement of o).
FromOffset(o, w) ==
    IF o >= 0 THEN Pad(<<o>>, w) ELSE <<256 + o>> \o Rep(255, w - 1)

RECURSIVE AddBytes(_, _, _)
AddBytes(x, y, c) ==
    IF x = <<>> THEN <<>>
    ELSE LET s == Head(x) + Head(y) + c
         IN  <<s % 256>> \o AddBytes(Tail(x), Tail(y), s \div 256)

\* wrapping_add on two native integers of the same width: the carry out of the
\* most significant byte is dropped.
WrappingAdd(x, y) == AddBytes(x, y, 0)

----------------------------------------------------------------------------
(* Serialization codec (bytesrepr).  A decode result is                    *)
(* [ok, val, err]: val when ok, else err.                                  *)

DecOk(v) == [ok |-> TRUE, val |-> v, err |-> "None"]
DecErr(dflt, e) == [ok |-> FALSE, val |-> dflt, err |-> e]

\* Fixed-width integers are little-endian; big integers are one length byte
\* n and then the n used little-endian bytes.
IntToBytes(t, n) ==
    IF t \in {"I32", "U64"} THEN n
    ELSE LET m == Trim(n) IN <<Len(m)>> \o m

\* bytesrepr::deserialize::<integer>: refuses short input and trailing bytes.
IntFromBytes(t, b) ==
    LET w == IntWidth(t)
        zero == Rep(0, w)
    IN  IF t \in {"I32", "U64"}
        THEN IF Len(b) < w THEN DecErr(zero, "EarlyEndOfStream")
             ELSE IF Len(b) > w THEN DecErr(zero, "LeftOverBytes")
             ELSE DecOk(b)
        ELSE IF b = <<>> THEN DecErr(zero, "EarlyEndOfStream")
             ELSE IF b[1] > w THEN DecErr(zero, "FormattingError")
             ELSE IF Len(b) - 1 < b[1] THEN DecErr(zero, "EarlyEndOfStream")
             ELSE IF Len(b) - 1 > b[1] THEN DecErr(zero, "LeftOverBytes")
             ELSE DecOk(Pad(SubSeq(b, 2, Len(b)), w))

----------------------------------------------------------------------------
(* Key. *)

MkKey(tag, addr, rights) == [tag |-> tag, addr |-> addr, rights |-> rights]

KAccount == MkKey("Account", 1, "NONE")
KHash == MkKey("Hash", 2, "NONE")
KURef == MkKey("URef", 4, "NONE")
KURefRW == MkKey("URef", 4, "READ_ADD_WRITE")

\* The absent entry of a named-keys map.
NoKey == MkKey("None", 0, "NONE")

AllKeys == {KAccount, KHash, KURef, KURefRW}

\* Key::normalize: a URef loses its access rights, any other key is itself.
Normalize(k) ==
    IF k.tag = "URef" THEN [k EXCEPT !.rights = "NONE"] ELSE k

NormKeys == {Normalize(k) : k \in AllKeys}

KeyTag(k) ==
    CASE k.tag = "Account" -> 0
      [] k.tag = "Hash" -> 1
      [] k.tag = "URef" -> 2

\* Sum tag, the 32-byte address, and for a URef its Option<AccessRights>.
KeyToBytes(k) ==
    <<KeyTag(k)>> \o Pad(<<k.addr>>, 32) \o
        (IF k.tag # "URef" THEN <<>>
         ELSE IF k.rights = "NONE" THEN <<0>>
         ELSE <<1, 7>>)

\* Key::from_bytes on the front of b: [ok, val, err, rest].
KeyParse(b) ==
    LET bad(e) == [ok |-> FALSE, val |-> NoKey, err |-> e, rest |-> <<>>]
        good(k, n) == [ok |-> TRUE, val |-> k, err |-> "None",
                       rest |-> SubSeq(b, n + 1, Len(b))]
    IN  IF b = <<>> THEN bad("EarlyEndOfStream")
        ELSE IF b[1] > 2 THEN bad("FormattingError")
        ELSE IF Len(b) < 33 THEN bad("EarlyEndOfStream")
        ELSE IF b[1] = 0 THEN good(MkKey("Account", b[2], "NONE"), 33)
        ELSE IF b[1] = 1 THEN good(MkKey("Hash", b[2], "NONE"), 33)
        ELSE IF Len(b) < 34 THEN bad("EarlyEndOfStream")
        ELSE IF b[34] = 0 THEN good(MkKey("URef", b[2], "NONE"), 34)
        ELSE IF b[34] > 1 THEN bad("FormattingError")
        ELSE IF Len(b) < 35 THEN bad("EarlyEndOfStream")
        ELSE good(MkKey("URef", b[2], "READ_ADD_WRITE"), 35)

\* bytesrepr::deserialize::<Key>: the whole input must be one key.
KeyFromBytes(b) ==
    LET p == KeyParse(b)
    IN  IF ~p.ok THEN DecErr(NoKey, p.err)
        ELSE IF p.rest # <<>> THEN DecErr(NoKey, "LeftOverBytes")
        ELSE DecOk(p.val)

----------------------------------------------------------------------------
(* Strings: the names of named keys.  A string is a u32 length and then   *)
(* its bytes.                                                              *)

Names == {"a", "b"}

NameChars(n) == IF n = "a" THEN <<97>> ELSE <<98>>

StringToBytes(n) == U32Bytes(Len(NameChars(n))) \o NameChars(n)

\* The serialized String "ok".
OkStringBytes == U32Bytes(2) \o <<111, 107>>

NoNames == [n \in Names |-> NoKey]

OneName(n, k) == [m \in Names |-> IF m = n THEN k ELSE NoKey]

\* (String, Key) as a tuple: the string, then the key.
NamedKeyToBytes(n, k) == StringToBytes(n) \o KeyToBytes(k)

\* bytesrepr::deserialize::<(String, Key)>: val is the one-entry map
\* iter::once(name_and_key).collect() builds from it.
NamedKeyFromBytes(b) ==
    IF Len(b) < 4 THEN DecErr(NoNames, "EarlyEndOfStream")
    ELSE IF Len(b) - 4 < b[1] THEN DecErr(NoNames, "EarlyEndOfStream")
    ELSE LET chars == SubSeq(b, 5, 4 + b[1])
             k == KeyFromBytes(SubSeq(b, 5 + b[1], Len(b)))
         IN  IF ~k.ok THEN DecErr(NoNames, k.err)
             ELSE IF \E n \in Names : NameChars(n) = chars
             THEN DecOk(OneName(CHOOSE n \in Names : NameChars(n) = chars, k.val))
             ELSE DecErr(NoNames, "FormattingError")

----------------------------------------------------------------------------
(* StoredValue and CLValue. *)

MkStored(sv, t, b, nk) ==
    [sv |-> sv, cl_type |-> t, bytes |-> b, named_keys |-> nk]

\* Option::None of a StoredValue.
None == MkStored("None", "", <<>>, NoNames)

\* Marks a key of the global state whose read answers Err(R::Error).
Faulty == MkStored("Faulty", "", <<>>, NoNames)

\* CLValue::from_components
CLValue(t, b) == MkStored("CLValue", t, b, NoNames)

Account(nk) == MkStored("Account", "", <<>>, nk)
Contract(nk) == MkStored("Contract", "", <<>>, nk)
ContractPackage == MkStored("ContractPackage", "", <<>>, NoNames)
ContractWasm == MkStored("ContractWasm", "", <<>>, NoNames)

\* CLValue::from_t for an integer given as an offset, for a Key and for a
\* (String, Key) pair.
IntValue(t, o) == CLValue(t, IntToBytes(t, FromOffset(o, IntWidth(t))))
KeyValue(k) == CLValue("Key", KeyToBytes(k))
NamedKeyValue(n, k) == CLValue(NamedKeyType, NamedKeyToBytes(n, k))
OkString == CLValue("String", OkStringBytes)

\* StoredValue::type_name
TypeName(v) == IF v.sv = "CLValue" THEN v.cl_type ELSE v.sv

\* An error of a call: kind is None, TypeMismatch or Serialization.
NoError == [kind |-> "None", expected |-> "", found |-> "", ser |-> "None"]
TypeMismatch(e, f) ==
    [kind |-> "TypeMismatch", expected |-> e, found |-> f, ser |-> "None"]
Serialization(e) ==
    [kind |-> "Serialization", expected |-> "", found |-> "", ser |-> e]

IntoTSkipsTagCheck(v, t, dec) ==
    IF dec.ok THEN [ok |-> TRUE, val |-> dec.val, err |-> NoError]
    ELSE [ok |-> FALSE, val |-> dec.val, err |-> Serialization(dec.err)]

\* CLValue::into_t::<T>, T's tag being t and dec the codec's decoding of the
\* bytes as T: the tag is checked first, then the bytes are decoded.
IntoT(v, t, dec) ==
    IF v.cl_type = t
    THEN IF dec.ok THEN [ok |-> TRUE, val |-> dec.val, err |-> NoError]
         ELSE [ok |-> FALSE, val |-> dec.val, err |-> Serialization(dec.err)]
    ELSE [ok |-> FALSE, val |-> dec.val, err |-> TypeMismatch(t, v.cl_type)]

----------------------------------------------------------------------------
(* CLValue on the wire (contract-ffi/src/value/cl_value.rs).               *)

\* The types CLValues of the model have.
CLTypes == IntTypes \cup {"String", "Key", NamedKeyType}

\* CLType::to_bytes: the tag, and for Tuple2 the tags of its parameters.
CLTypeToBytes(t) ==
    CASE t = "I32" -> <<1>>
      [] t = "U64" -> <<5>>
      [] t = "U128" -> <<6>>
      [] t = "U256" -> <<7>>
      [] t = "U512" -> <<8>>
      [] t = "String" -> <<10>>
      [] t = "Key" -> <<11>>
      [] t = NamedKeyType -> <<19, 10, 11>>

\* A parse result: [ok, val, rest, err].
ParseOk(v, rest) == [ok |-> TRUE, val |-> v, rest |-> rest, err |-> "None"]
ParseErr(dflt, e) == [ok |-> FALSE, val |-> dflt, rest |-> <<>>, err |-> e]

\* CLType::from_bytes on the front of b.
CLTypeFromBytes(b) ==
    IF b = <<>> THEN ParseErr("", "EarlyEndOfStream")
    ELSE IF \E t \in CLTypes :
                /\ Len(b) >= Len(CLTypeToBytes(t))
                /\ SubSeq(b, 1, Len(CLTypeToBytes(t))) = CLTypeToBytes(t)
    THEN LET t == CHOOSE t \in CLTypes :
                    /\ Len(b) >= Len(CLTypeToBytes(t))
                    /\ SubSeq(b, 1, Len(CLTypeToBytes(t))) = CLTypeToBytes(t)
         IN  ParseOk(t, SubSeq(b, Len(CLTypeToBytes(t)) + 1, Len(b)))
    ELSE IF b[1] = 19 THEN ParseErr("", "EarlyEndOfStream")
    ELSE ParseErr("", "FormattingError")

\* Vec<u8>::to_bytes: the u32 length, then the bytes.
BytesToBytes(b) == U32Bytes(Len(b)) \o b

\* Vec<u8>::from_bytes on the front of b.  A length with a byte above its
\* second one is longer than any input of the model.
BytesFromBytes(b) ==
    IF Len(b) < 4 THEN ParseErr(<<>>, "EarlyEndOfStream")
    ELSE IF b[3] # 0 \/ b[4] # 0 THEN ParseErr(<<>>, "EarlyEndOfStream")
    ELSE LET n == b[1] + 256 * b[2]
         IN  IF Len(b) - 4 < n THEN ParseErr(<<>>, "EarlyEndOfStream")
             ELSE ParseOk(SubSeq(b, 5, 4 + n), SubSeq(b, 5 + n, Len(b)))

\* impl IntoBytes for CLValue: into_bytes
CLValueIntoBytesTypeFirst(v) == CLTypeToBytes(v.cl_type) \o BytesToBytes(v.bytes)

\* impl ToBytes for CLValue: into_bytes
CLValueIntoBytesBytesFirst(v) == BytesToBytes(v.bytes) \o CLTypeToBytes(v.cl_type)

\* The two impls a call `x.into_bytes()` on a CLValue can name.
IntoBytesImpls == {"IntoBytes", "ToBytes"}

\* `cl_value.into_bytes()` with both traits in scope, resolved to impl.
CLValueCallIntoBytes(v, impl) ==
    IF impl = "IntoBytes" THEN CLValueIntoBytesTypeFirst(v)
    ELSE CLValueIntoBytesBytesFirst(v)

\* impl ToBytes for CLValue: to_bytes, self.clone().into_bytes()
CLValueToBytes(v, impl) == CLValueCallIntoBytes(v, impl)

\* impl FromBytes for CLValue: the bytes, then the type.
CLValueFromBytes(b) ==
    LET p == BytesFromBytes(b)
        t == CLTypeFromBytes(p.rest)
    IN  IF ~p.ok THEN ParseErr(None, p.err)
        ELSE IF ~t.ok THEN ParseErr(None, t.err)
        ELSE ParseOk(CLValue(t.val, p.val), t.rest)

RECURSIVE Concat(_)
Concat(ss) == IF ss = <<>> THEN <<>> ELSE Head(ss) \o Concat(Tail(ss))

\* impl IntoBytes / ToBytes for Vec<CLValue>: the u32 count, then each
\* element through the call the impl makes on it.
VecIntoBytes(vs, impl) ==
    U32Bytes(Len(vs)) \o Concat([i \in 1..Len(vs) |-> CLValueCallIntoBytes(vs[i], impl)])

VecToBytes(vs, impl) ==
    U32Bytes(Len(vs)) \o Concat([i \in 1..Len(vs) |-> CLValueToBytes(vs[i], impl)])

RECURSIVE VecElements(_, _)
\* The loop of Vec<CLValue>::from_bytes: n more elements off the front of b,
\* val the elements read.
VecElements(n, b) ==
    IF n = 0 THEN ParseOk(<<>>, b)
    ELSE LET e == CLValueFromBytes(b)
         IN  IF ~e.ok THEN ParseErr(<<>>, e.err)
             ELSE LET more == VecElements(n - 1, e.rest)
                  IN  IF ~more.ok THEN more
                      ELSE ParseOk(<<e.val>> \o more.val, more.rest)

\* impl FromBytes for Vec<CLValue>: the u32 count, then that many elements.
\* A count above the length of the input stops at the same element as a
\* count of that length does, every element being at least one byte.
VecFromBytes(b) ==
    IF Len(b) < 4 THEN ParseErr(<<>>, "EarlyEndOfStream")
    ELSE LET len == IF b[2] # 0 \/ b[3] # 0 \/ b[4] # 0 \/ b[1] > Len(b)
                    THEN Len(b) ELSE b[1]
         IN  VecElements(len, SubSeq(b, 5, Len(b)))

\* bytesrepr::deserialize: the whole input must be one value.
Deserialize(p, dflt) ==
    IF p.ok /\ p.rest # <<>> THEN ParseErr(dflt, "LeftOverBytes")
    ELSE IF ~p.ok THEN ParseErr(dflt, p.err)
    ELSE p

\* A native value: an integer as its bytes, a String as its characters, a
\* Key, or a (String, Key) pair as the one-entry map of it; the fields of
\* the other types are blank.
MkNative(i, s, k, nk) == [int |-> i, str |-> s, key |-> k, names |-> nk]
NativeInt(i) == MkNative(i, <<>>, NoKey, NoNames)
NativeString(s) == MkNative(<<>>, s, NoKey, NoNames)
NativeKey(k) == MkNative(<<>>, <<>>, k, NoNames)
NativePair(nk) == MkNative(<<>>, <<>>, NoKey, nk)
NoNative == MkNative(<<>>, <<>>, NoKey, NoNames)

\* T::into_bytes of a native value x of the type tagged ty.
Encode(ty, x) ==
    CASE ty \in IntTypes -> IntToBytes(ty, x.int)
      [] ty = "String" -> BytesToBytes(x.str)
      [] ty = "Key" -> KeyToBytes(x.key)
      [] ty = NamedKeyType ->
            LET n == CHOOSE n \in Names : x.names[n] # NoKey
            IN  NamedKeyToBytes(n, x.names[n])

\* bytesrepr::deserialize::<String>
StringFromBytes(b) ==
    LET p == Deserialize(BytesFromBytes(b), <<>>)
    IN  IF p.ok THEN DecOk(p.val) ELSE DecErr(<<>>, p.err)

\* bytesrepr::deserialize::<T> for the type tagged ty.
Decode(ty, b) ==
    CASE ty \in IntTypes ->
            LET d == IntFromBytes(ty, b)
            IN  [ok |-> d.ok, val |-> NativeInt(d.val), err |-> d.err]
      [] ty = "String" ->
            LET d == StringFromBytes(b)
            IN  [ok |-> d.ok, val |-> NativeString(d.val), err |-> d.err]
      [] ty = "Key" ->
            LET d == KeyFromBytes(b)
            IN  [ok |-> d.ok, val |-> NativeKey(d.val), err |-> d.err]
      [] ty = NamedKeyType ->
            LET d == NamedKeyFromBytes(b)
            IN  [ok |-> d.ok, val |-> NativePair(d.val), err |-> d.err]

\* CLValue::from_t
FromT(ty, x) == CLValue(ty, Encode(ty, x))

\* CLValue::into_t::<U>, U the type tagged want.
IntoTAs(v, want) == IntoT(v, want, Decode(want, v.bytes))

\* The entry points that serialize a CLValue and a Vec<CLValue>.
CLValueEntries ==
    {"CLValue::IntoBytes::into_bytes", "CLValue::ToBytes::to_bytes",
     "CLValue::ToBytes::into_bytes"}
VecEntries ==
    {"Vec::IntoBytes::into_bytes", "Vec::ToBytes::to_bytes",
     "Vec::ToBytes::into_bytes"}

\* The impls the into_bytes call inside an entry point can resolve to: the
\* CLValue impls of into_bytes make no such call.
ImplsOf(entry) ==
    CASE entry = "CLValue::IntoBytes::into_bytes" -> {"IntoBytes"}
      [] entry = "CLValue::ToBytes::into_bytes" -> {"ToBytes"}
      [] OTHER -> IntoBytesImpls

\* What an entry point makes of the values vs, one value for an entry point
\* of CLValue.
Serialize(entry, vs, impl) ==
    CASE entry = "CLValue::IntoBytes::into_bytes" -> CLValueIntoBytesTypeFirst(vs[1])
      [] entry = "CLValue::ToBytes::to_bytes" -> CLValueToBytes(vs[1], impl)
      [] entry = "CLValue::ToBytes::into_bytes" -> CLValueIntoBytesBytesFirst(vs[1])
      [] entry = "Vec::IntoBytes::into_bytes" -> VecIntoBytes(vs, impl)
      [] entry = "Vec::ToBytes::to_bytes" -> VecToBytes(vs, impl)
      [] entry = "Vec::ToBytes::into_bytes" -> VecIntoBytes(vs, impl)

\* The result of into_t before it is called.
NoExtract == [ok |-> FALSE, val |-> NoNative, err |-> NoError]

\* No value under way.
NoWire ==
    [phase |-> "none", ty |-> "", x |-> NoNative, vals |-> <<>>, entry |-> "",
     impl |-> "", bytes |-> <<>>, dec |-> ParseErr(<<>>, "None"),
     want |-> "", got |-> NoExtract]

----------------------------------------------------------------------------
(* Transform, Op and AdditiveMap (engine_shared, engine_state::op). *)

MkTransform(t, v, n, keys, err) ==
    [t |-> t, v |-> v, n |-> n, keys |-> keys, err |-> err]

Identity == MkTransform("Identity", None, <<>>, NoNames, NoError)
Write(v) == MkTransform("Write", v, <<>>, NoNames, NoError)
AddKeys(m) == MkTransform("AddKeys", None, <<>>, m, NoError)
Failure(e) == MkTransform("Failure", None, <<>>, NoNames, e)

\* The absent entry of the transforms map.
NoTransform == MkTransform("Absent", None, <<>>, NoNames, NoError)

AddIntName(ty) ==
    CASE ty = "I32" -> "AddInt32"
      [] ty = "U64" -> "AddUInt64"
      [] ty = "U128" -> "AddUInt128"
      [] ty = "U256" -> "AddUInt256"
      [] ty = "U512" -> "AddUInt512"

AddIntNames == {AddIntName(ty) : ty \in IntTypes}

\* Transform::AddInt32(n) ... Transform::AddUInt512(n), n the native integer.
AddInt(ty, n) == MkTransform(AddIntName(ty), None, n, NoNames, NoError)

\* The integer type an additive transform adds to.
AddIntType(tr) == CHOOSE ty \in IntTypes : AddIntName(ty) = tr.t

\* Named keys appended to a map: a later entry overwrites on a duplicate name.
MergeNames(old, new) ==
    [n \in Names |-> IF new[n] # NoKey THEN new[n] ELSE old[n]]

ApplyOk(v) == [ok |-> TRUE, val |-> v, err |-> NoError]
ApplyErr(e) == [ok |-> FALSE, val |-> None, err |-> e]

\* Transform::apply
TransformApply(tr, x) ==
    CASE tr.t = "Identity" -> ApplyOk(x)
      [] tr.t = "Write" -> ApplyOk(tr.v)
      [] tr.t = "Failure" -> ApplyErr(tr.err)
      [] tr.t = "AddKeys" ->
            IF x.sv \in {"Account", "Contract"}
            THEN ApplyOk([x EXCEPT !.named_keys = MergeNames(@, tr.keys)])
            ELSE ApplyErr(TypeMismatch("Contract or Account", TypeName(x)))
      [] tr.t \in AddIntNames ->
            LET ty == AddIntType(tr)
            IN  IF x.sv # "CLValue" \/ x.cl_type # ty
                THEN ApplyErr(TypeMismatch(ty, TypeName(x)))
                ELSE LET d == IntoT(x, ty, IntFromBytes(ty, x.bytes))
                     IN  IF ~d.ok THEN ApplyErr(d.err)
                         ELSE ApplyOk(CLValue(ty,
                                  IntToBytes(ty, WrappingAdd(d.val, tr.n))))

\* Transform's `+`: a then b.
TransformAdd(a, b) ==
    CASE a.t = "Failure" -> a
      [] a.t # "Failure" /\ b.t = "Failure" -> b
      [] a.t # "Failure" /\ b.t = "Write" -> b
      [] a.t = "Identity" /\ b.t \notin {"Failure", "Write"} -> b
      [] a.t \notin {"Failure", "Identity"} /\ b.t = "Identity" -> a
      [] a.t = "Write" /\ b.t \notin {"Failure", "Write", "Identity"} ->
            LET r == TransformApply(b, a.v)
            IN  IF r.ok THEN Write(r.val) ELSE Failure(r.err)
      [] a.t \in AddIntNames /\ b.t \in AddIntNames ->
            IF a.t = b.t THEN [a EXCEPT !.n = WrappingAdd(@, b.n)]
            ELSE Failure(TypeMismatch(AddIntType(a), AddIntType(b)))
      [] a.t \in AddIntNames /\ b.t = "AddKeys" ->
            Failure(TypeMismatch(AddIntType(a), "AddKeys"))
      [] a.t = "AddKeys" /\ b.t \in AddIntNames ->
            Failure(TypeMismatch("AddKeys", AddIntType(b)))
      [] a.t = "AddKeys" /\ b.t = "AddKeys" ->
            AddKeys(MergeNames(a.keys, b.keys))

\* Op's `+`: NoOp < Read < (Write or Add), Write winning over Add.
OpAdd(a, b) ==
    IF a = b THEN a
    ELSE IF a = "NoOp" THEN b
    ELSE IF b = "NoOp" THEN a
    ELSE IF a = "Read" THEN b
    ELSE IF b = "Read" THEN a
    ELSE "Write"

\* AdditiveMap<Key, Op> and AdditiveMap<Key, Transform>, an absent key
\* holding "Absent" / NoTransform.
EmptyOps == [k \in AllKeys |-> "Absent"]
EmptyFns == [k \in AllKeys |-> NoTransform]

\* AdditiveMap::insert_add
OpsInsertAdd(m, k, op) ==
    [m EXCEPT ![k] = IF @ = "Absent" THEN op ELSE OpAdd(@, op)]

FnsInsertAdd(m, k, tr) ==
    [m EXCEPT ![k] = IF @ = NoTransform THEN tr ELSE TransformAdd(@, tr)]

----------------------------------------------------------------------------
(* TrackingCopyCache. *)

\* Meter::measure of the heap-size meter: the bytes the key and the value hold.
Measure(k, v) ==
    Len(KeyToBytes(k)) + Len(v.bytes)
        + 34 * Cardinality({n \in Names : v.named_keys[n] # NoKey})

NoMuts == [k \in AllKeys |-> None]

\* TrackingCopyCache::new
CacheNew(max) ==
    [max_cache_size |-> max, current_cache_size |-> 0,
     reads_cached |-> <<>>, muts_cached |-> NoMuts]

\* LinkedHashMap: a sequence of entries, front first.
Entry(k, v) == [key |-> k, value |-> v]

LhmHas(m, k) == \E i \in 1..Len(m) : m[i].key = k

LhmValue(m, k) == (CHOOSE e \in {m[i] : i \in 1..Len(m)} : e.key = k).value

LhmRemove(m, k) == SelectSeq(m, LAMBDA e : e.key # k)

\* LinkedHashMap::insert: an existing entry takes the new value and moves to
\* the back.
LhmInsert(m, k, v) == Append(LhmRemove(m, k), Entry(k, v))

\* LinkedHashMap::get_refresh: the entry hit moves to the back.
LhmRefresh(m, k) == Append(LhmRemove(m, k), Entry(k, LhmValue(m, k)))

RECURSIVE Evict(_)
\* The while loop of insert_read: pop_front until the size fits or nothing
\* is left.
Evict(c) ==
    IF c.current_cache_size > c.max_cache_size /\ c.reads_cached # <<>>
    THEN LET e == Head(c.reads_cached)
         IN  Evict([c EXCEPT
                 !.reads_cached = Tail(@),
                 !.current_cache_size = @ - Measure(e.key, e.value)])
    ELSE c

InsertReadNoEviction(c, k, v) ==
    [c EXCEPT !.reads_cached = LhmInsert(@, k, v),
              !.current_cache_size = @ + Measure(k, v)]

\* TrackingCopyCache::insert_read
InsertRead(c, k, v) ==
    Evict([c EXCEPT !.reads_cached = LhmInsert(@, k, v),
                    !.current_cache_size = @ + Measure(k, v)])

\* TrackingCopyCache::insert_write
InsertWrite(c, k, v) == [c EXCEPT !.muts_cached[k] = v]

CacheGetReadsFirst(c, k) ==
    IF LhmHas(c.reads_cached, k)
    THEN [cache |-> [c EXCEPT !.reads_cached = LhmRefresh(@, k)],
          value |-> LhmValue(c.reads_cached, k)]
    ELSE [cache |-> c, value |-> c.muts_cached[k]]

CacheGetNoRefresh(c, k) ==
    IF c.muts_cached[k] # None
    THEN [cache |-> c, value |-> c.muts_cached[k]]
    ELSE IF LhmHas(c.reads_cached, k)
    THEN [cache |-> c, value |-> LhmValue(c.reads_cached, k)]
    ELSE [cache |-> c, value |-> None]

\* TrackingCopyCache::get: [cache, value], value None on a miss.
CacheGet(c, k) ==
    IF c.muts_cached[k] # None
    THEN [cache |-> c, value |-> c.muts_cached[k]]
    ELSE IF LhmHas(c.reads_cached, k)
    THEN [cache |-> [c EXCEPT !.reads_cached = LhmRefresh(@, k)],
          value |-> LhmValue(c.reads_cached, k)]
    ELSE [cache |-> c, value |-> None]

----------------------------------------------------------------------------
(* TrackingCopy. *)

\* max_cache_size of TrackingCopy::new: 1024 * 16.
DefaultMaxCacheSize == 16384

\* TrackingCopy::new (the reader is the copy's place in the chain).
TrackingCopyNew ==
    [cache |-> CacheNew(DefaultMaxCacheSize), ops |-> EmptyOps, fns |-> EmptyFns]

\* Result<Option<StoredValue>, R::Error>
Some(v) == [kind |-> "Some", value |-> v]
NoneRes == [kind |-> "None", value |-> None]
ErrRes == [kind |-> "Err", value |-> None]

\* StateReader::read of the global state rd.
GlobalRead(rd, k) ==
    IF rd[k] = Faulty THEN ErrRes
    ELSE IF rd[k] = None THEN NoneRes
    ELSE Some(rd[k])

ReaderReadParentOnly(rd, chain, i, k) ==
    IF i = 1 THEN GlobalRead(rd, k)
    ELSE IF chain[i - 1].cache.muts_cached[k] # None
    THEN Some(chain[i - 1].cache.muts_cached[k])
    ELSE GlobalRead(rd, k)

RECURSIVE ReaderRead(_, _, _, _)
\* self.reader.read of the copy at place i of chain.  The first copy reads
\* the global state rd; a fork reads through
\* `impl StateReader for &TrackingCopy`: the parent's muts_cached, then the
\* parent's own reader.
ReaderRead(rd, chain, i, k) ==
    IF i = 1 THEN GlobalRead(rd, k)
    ELSE IF chain[i - 1].cache.muts_cached[k] # None
    THEN Some(chain[i - 1].cache.muts_cached[k])
    ELSE ReaderRead(rd, chain, i - 1, k)

RECURSIVE ReaderAsked(_, _, _)
\* The copies whose reader.read(k) is called when the copy at place i of
\* chain calls self.reader.read(k): its own, and through
\* `impl StateReader for &TrackingCopy` that of every parent up to the first
\* one that has k in muts_cached.
ReaderAsked(chain, i, k) ==
    IF i = 1 THEN {1}
    ELSE IF chain[i - 1].cache.muts_cached[k] # None THEN {i}
    ELSE {i} \cup ReaderAsked(chain, i - 1, k)

TCGetAsksFirst(rd, chain, i, k) ==
    LET tc == chain[i]
        hit == CacheGet(tc.cache, k)
        r == ReaderRead(rd, chain, i, k)
    IN  IF hit.value # None
        THEN [tc |-> [tc EXCEPT !.cache = hit.cache], res |-> Some(hit.value),
              asked |-> ReaderAsked(chain, i, k)]
        ELSE IF r.kind = "Some"
        THEN [tc |-> [tc EXCEPT !.cache = InsertRead(@, k, r.value)],
              res |-> r, asked |-> ReaderAsked(chain, i, k)]
        ELSE [tc |-> tc, res |-> r, asked |-> ReaderAsked(chain, i, k)]

TCGetRecordsRead(rd, chain, i, k) ==
    LET tc == chain[i]
        hit == CacheGet(tc.cache, k)
        r == ReaderRead(rd, chain, i, k)
        noted == [tc EXCEPT !.ops = OpsInsertAdd(@, k, "Read"),
                            !.fns = FnsInsertAdd(@, k, Identity)]
    IN  IF hit.value # None
        THEN [tc |-> [noted EXCEPT !.cache = hit.cache], res |-> Some(hit.value),
              asked |-> {}]
        ELSE IF r.kind = "Some"
        THEN [tc |-> [noted EXCEPT !.cache = InsertRead(@, k, r.value)],
              res |-> r, asked |-> ReaderAsked(chain, i, k)]
        ELSE [tc |-> tc, res |-> r, asked |-> ReaderAsked(chain, i, k)]

\* TrackingCopy::get: [tc, res, asked], asked the copies whose reader.read
\* the call reached.
TCGet(rd, chain, i, k) ==
    LET tc == chain[i]
        hit == CacheGet(tc.cache, k)
    IN  IF hit.value # None
        THEN [tc |-> [tc EXCEPT !.cache = hit.cache], res |-> Some(hit.value),
              asked |-> {}]
        ELSE LET r == ReaderRead(rd, chain, i, k)
             IN  IF r.kind = "Some"
                 THEN [tc |-> [tc EXCEPT !.cache = InsertRead(@, k, r.value)],
                       res |-> r, asked |-> ReaderAsked(chain, i, k)]
                 ELSE [tc |-> tc, res |-> r,
                       asked |-> ReaderAsked(chain, i, k)]

TCReadRecordsOnMiss(rd, chain, i, key) ==
    LET normalized_key == Normalize(key)
        g == TCGet(rd, chain, i, normalized_key)
    IN  [tc |-> [g.tc EXCEPT
                    !.ops = OpsInsertAdd(@, normalized_key, "Read"),
                    !.fns = FnsInsertAdd(@, normalized_key, Identity)],
         res |-> g.res]

\* TrackingCopy::read: [tc, res].
TCRead(rd, chain, i, key) ==
    LET normalized_key == Normalize(key)
        g == TCGet(rd, chain, i, normalized_key)
    IN  IF g.res.kind = "Some"
        THEN [tc |-> [g.tc EXCEPT
                        !.ops = OpsInsertAdd(@, normalized_key, "Read"),
                        !.fns = FnsInsertAdd(@, normalized_key, Identity)],
              res |-> g.res]
        ELSE g

TCWriteUnnormalized(tc, key, value) ==
    [tc EXCEPT !.cache = InsertWrite(@, key, value),
               !.ops = OpsInsertAdd(@, key, "Write"),
               !.fns = FnsInsertAdd(@, key, Write(value))]

TCWriteSkipsCache(tc, key, value) ==
    LET normalized_key == Normalize(key)
    IN  [tc EXCEPT !.ops = OpsInsertAdd(@, normalized_key, "Write"),
                   !.fns = FnsInsertAdd(@, normalized_key, Write(value))]

\* TrackingCopy::write
TCWrite(tc, key, value) ==
    LET normalized_key == Normalize(key)
    IN  [tc EXCEPT !.cache = InsertWrite(@, normalized_key, value),
                   !.ops = OpsInsertAdd(@, normalized_key, "Write"),
                   !.fns = FnsInsertAdd(@, normalized_key, Write(value))]

\* AddResult
AddRes(kind, err) == [kind |-> kind, err |-> err]

\* AddResult::from(CLValueError)
AddResFrom(err) == AddRes(err.kind, err)

\* The operand of add turned into a Transform: [ok, tr, res], res the
\* AddResult returned when the operand is refused.
AddTransform(value) ==
    LET mismatch == AddRes("TypeMismatch",
            TypeMismatch("I32, U64, U128, U256, U512 or (String, Key) tuple",
                         TypeName(value)))
        refuse(r) == [ok |-> FALSE, tr |-> Identity, res |-> r]
        accept(tr) == [ok |-> TRUE, tr |-> tr, res |-> AddRes("Success", NoError)]
    IN  IF value.sv # "CLValue" THEN refuse(mismatch)
        ELSE IF value.cl_type \in IntTypes
        THEN LET d == IntoT(value, value.cl_type,
                            IntFromBytes(value.cl_type, value.bytes))
             IN  IF d.ok THEN accept(AddInt(value.cl_type, d.val))
                 ELSE refuse(AddResFrom(d.err))
        ELSE IF value.cl_type = NamedKeyType
        THEN LET d == IntoT(value, NamedKeyType, NamedKeyFromBytes(value.bytes))
             IN  IF d.ok THEN accept(AddKeys(d.val))
                 ELSE refuse(AddResFrom(d.err))
        ELSE refuse(mismatch)

AddMissingRecordsOp(tc, normalized_key) ==
    [tc |-> [tc EXCEPT !.ops = OpsInsertAdd(@, normalized_key, "Add")],
     res |-> AddRes("KeyNotFound", NoError), cur |-> None]

\* The None arm of add's lookup: return Ok(AddResult::KeyNotFound(..)).
AddMissing(tc, normalized_key) ==
    [tc |-> tc, res |-> AddRes("KeyNotFound", NoError), cur |-> None]

AddRefusedRecordsOp(tc, normalized_key, res, cur) ==
    [tc |-> [tc EXCEPT !.ops = OpsInsertAdd(@, normalized_key, "Add")],
     res |-> AddRes("Success", NoError), cur |-> cur]

AddRefusedRecordsFailure(tc, normalized_key, res, cur) ==
    [tc |-> [tc EXCEPT !.fns = FnsInsertAdd(@, normalized_key, Failure(res.err))],
     res |-> res, cur |-> cur]

\* The returns of add that refuse the operand or the transform's result:
\* mismatch(), AddResult::from(error), and the Err arms of apply.
AddRefused(tc, normalized_key, res, cur) ==
    [tc |-> tc, res |-> res, cur |-> cur]

AddAppliedDropsTransform(tc, normalized_key, new_value, transform, cur) ==
    [tc |-> [tc EXCEPT
                !.cache = InsertWrite(@, normalized_key, new_value),
                !.ops = OpsInsertAdd(@, normalized_key, "Add")],
     res |-> AddRes("Success", NoError), cur |-> cur]

AddAppliedKeepsCurrent(tc, normalized_key, new_value, transform, cur) ==
    [tc |-> [tc EXCEPT
                !.cache = InsertWrite(@, normalized_key, cur),
                !.ops = OpsInsertAdd(@, normalized_key, "Add"),
                !.fns = FnsInsertAdd(@, normalized_key, transform)],
     res |-> AddRes("Success", NoError), cur |-> cur]

\* The Ok arm of transform.apply(current_value) in add.
AddApplied(tc, normalized_key, new_value, transform, cur) ==
    [tc |-> [tc EXCEPT
                !.cache = InsertWrite(@, normalized_key, new_value),
                !.ops = OpsInsertAdd(@, normalized_key, "Add"),
                !.fns = FnsInsertAdd(@, normalized_key, transform)],
     res |-> AddRes("Success", NoError), cur |-> cur]

\* TrackingCopy::add: [tc, res, cur], cur the current value the add met
\* (None when there was none).
TCAdd(rd, chain, i, key, value) ==
    LET normalized_key == Normalize(key)
        g == TCGet(rd, chain, i, normalized_key)
        t == AddTransform(value)
        a == TransformApply(t.tr, g.res.value)
    IN  IF g.res.kind = "Err"
        THEN [tc |-> g.tc, res |-> AddRes("Err", NoError), cur |-> None]
        ELSE IF g.res.kind = "None" THEN AddMissing(g.tc, normalized_key)
        ELSE IF ~t.ok THEN AddRefused(g.tc, normalized_key, t.res, g.res.value)
        ELSE IF a.ok
        THEN AddApplied(g.tc, normalized_key, a.val, t.tr, g.res.value)
        ELSE AddRefused(g.tc, normalized_key, AddRes(a.err.kind, a.err),
                        g.res.value)

ForkSharesEffect(parent) == parent

\* TrackingCopy::fork: TrackingCopy::new(self), the fork of parent.
ForkedCopy(parent) == TrackingCopyNew

\* TrackingCopy::effect
Effect(tc) == [ops |-> tc.ops, transforms |-> tc.fns]

----------------------------------------------------------------------------
(* TrackingCopy::query and its Query state. *)

\* Query::new, with the loop's outcome: result is Running until the loop
\* returns; iters counts the iterations begun.
QueryNew(base_key, path) ==
    [base_key |-> base_key,
     current_key |-> Normalize(base_key),
     unvisited_names |-> path,
     visited_names |-> <<>>,
     visited_keys |-> {},
     result |-> "Running", value |-> None, msg |-> "", iters |-> 0]

\* A query that was never started.
NoQuery == [QueryNew(KAccount, <<>>) EXCEPT !.result = "Idle"]

\* Query::into_not_found_result
NotFound(q, msg_prefix) ==
    [q EXCEPT !.result = "ValueNotFound", !.msg = msg_prefix]

CircularRefAsNotFound(q) == [q EXCEPT !.result = "ValueNotFound"]

\* Query::into_circular_ref_result
CircularRef(q) == [q EXCEPT !.result = "CircularReference"]

FollowNameKeepsName(q, stored_value, what) ==
    LET name == Head(q.unvisited_names)
    IN  IF stored_value.named_keys[name] # NoKey
        THEN [q EXCEPT !.current_key = Normalize(stored_value.named_keys[name])]
        ELSE NotFound(q, what)

\* Query::next_name and the named_keys lookup that follows it in the Account
\* and Contract arms.
FollowName(q, stored_value, what) ==
    LET name == Head(q.unvisited_names)
        q1 == [q EXCEPT !.unvisited_names = Tail(@),
                        !.visited_names = Append(@, name)]
    IN  IF stored_value.named_keys[name] # NoKey
        THEN [q1 EXCEPT !.current_key = Normalize(stored_value.named_keys[name])]
        ELSE NotFound(q1, what)

QueryReadThroughCache(rd, chain, i, k) == TCGet(rd, chain, i, k).res

\* self.reader.read(correlation_id, &query.current_key)
QueryRead(rd, chain, i, k) == ReaderRead(rd, chain, i, k)

\* The match on the stored value, names remaining.
QueryDispatch(q, stored_value) ==
    CASE stored_value.sv = "Account" ->
            FollowName(q, stored_value, "Name not found in Account")
      [] stored_value.sv = "CLValue" /\ stored_value.cl_type = "Key" ->
            LET d == IntoT(stored_value, "Key", KeyFromBytes(stored_value.bytes))
            IN  IF d.ok THEN [q EXCEPT !.current_key = Normalize(d.val)]
                ELSE NotFound(q, "Failed to parse CLValue as Key")
      [] stored_value.sv = "CLValue" /\ stored_value.cl_type # "Key" ->
            NotFound(q, "Query cannot continue")
      [] stored_value.sv = "Contract" ->
            FollowName(q, stored_value, "Name not found in Contract")
      [] stored_value.sv = "ContractPackage" ->
            NotFound(q, "ContractPackage value found.")
      [] stored_value.sv = "ContractWasm" ->
            NotFound(q, "ContractWasm value found.")

QueryStepNoVisitedCheck(rd, chain, i, q0) ==
    LET q == [q0 EXCEPT !.iters = @ + 1,
                        !.visited_keys = @ \cup {q0.current_key}]
        r == QueryRead(rd, chain, i, q.current_key)
    IN  IF r.kind = "Err" THEN [q EXCEPT !.result = "Err"]
        ELSE IF r.kind = "None" THEN NotFound(q, "Failed to find base key")
        ELSE IF q.unvisited_names = <<>>
        THEN [q EXCEPT !.result = "Success", !.value = r.value]
        ELSE QueryDispatch(q, r.value)

\* One iteration of the loop of TrackingCopy::query, by the copy at place i
\* of chain.
QueryStep(rd, chain, i, q0) ==
    IF q0.current_key \in q0.visited_keys
    THEN CircularRef([q0 EXCEPT !.iters = @ + 1])
    ELSE LET q == [q0 EXCEPT !.iters = @ + 1,
                             !.visited_keys = @ \cup {q0.current_key}]
             r == QueryRead(rd, chain, i, q.current_key)
         IN  IF r.kind = "Err" THEN [q EXCEPT !.result = "Err"]
             ELSE IF r.kind = "None" THEN NotFound(q, "Failed to find base key")
             ELSE IF q.unvisited_names = <<>>
             THEN [q EXCEPT !.result = "Success", !.value = r.value]
             ELSE QueryDispatch(q, r.value)

RECURSIVE QueryLoop(_, _, _, _)
\* The loop, run to its return.
QueryLoop(rd, chain, i, q) ==
    IF q.result # "Running" THEN q
    ELSE QueryLoop(rd, chain, i, QueryStep(rd, chain, i, q))

\* TrackingCopy::query
TCQuery(rd, chain, i, base_key, path) ==
    QueryLoop(rd, chain, i, QueryNew(base_key, path))

----------------------------------------------------------------------------
(* Inputs. *)

\* A global state: what it holds under the account, the hash and the URef
\* address (keys are stored normalized).
MkReader(a, h, u) ==
    [k \in AllKeys |->
        CASE k = KAccount -> a
          [] k = KHash -> h
          [] k = KURef -> u
          [] OTHER -> None]

\* Operands of add that are no well-formed integer: a String, a value that
\* is no CLValue, and a U64 whose bytes are cut short.
BadOperands == {OkString, Account(NoNames), CLValue("U64", <<1, 2>>)}

MkEnv(stored, written, operand, hash) ==
    [stored |-> stored, written |-> written, operand |-> operand, hash |-> hash]

\* Values written where an integer of type t is stored: 7 and the largest
\* value of the type.
IntWrites(t) == {IntValue(t, 7), IntValue(t, -1)}

\* What a behaviour of Spec works with: the value the global state holds
\* under the URef, the values it writes, the operand of its adds, and what
\* the global state answers for the hash (nothing, or a read error).
\* Stored is the largest integer of a type with 2 of every integer type
\* added, or with an operand add refuses, or an account with a named key or
\* an integer added.
Envs ==
    {MkEnv(IntValue(t, -1), IntWrites(t), IntValue(t2, 2), None) :
        t \in IntTypes, t2 \in IntTypes}
    \cup {MkEnv(IntValue("U64", -1), IntWrites("U64"), o, None) :
            o \in BadOperands \cup {NamedKeyValue("b", KURefRW)}}
    \cup {MkEnv(Account(OneName("a", KHash)), {Account(NoNames), ContractWasm},
                o, None) :
            o \in {NamedKeyValue("b", KURefRW), NamedKeyValue("a", KURefRW),
                   IntValue("U64", 2)}}
    \cup {MkEnv(IntValue("U64", -1), IntWrites("U64"), IntValue("U64", 2), Faulty)}

\* The global state of a behaviour of Spec: an account naming the URef.
ReaderOf(e) == MkReader(Account(OneName("a", KURefRW)), e.hash, e.stored)

\* Keys of write and add (the URef carries access rights), of get, and of
\* read.
CallKeys == {KURefRW, KHash}
PlainKeys == {KURef, KHash}
ReadKeys == {KURef, KURefRW, KHash}

\* Queries of Spec: base key and path.
Queries == {<<KURefRW, <<>> >>, <<KHash, <<>> >>, <<KAccount, <<"a">> >>}

Paths == UNION {[1..n -> Names] : n \in 0..MaxPath}

\* Global states of SpecQuery: accounts, contracts, keys pointing at each
\* other (cycles among them), values that are not traversable, a Key value
\* whose bytes are cut short, absent keys and a read error.
QueryReaders ==
    {MkReader(a, h, u) :
        a \in {None, Account(OneName("a", KHash)),
               [Account(OneName("a", KURefRW)) EXCEPT !.named_keys["b"] = KAccount],
               KeyValue(KHash)},
        h \in {None, Faulty, Contract(OneName("b", KURefRW)), KeyValue(KAccount),
               KeyValue(KURefRW), ContractWasm, ContractPackage},
        u \in {None, OkString, KeyValue(KAccount), KeyValue(KHash),
               CLValue("Key", <<1, 2>>), Account(OneName("a", KAccount))}}

\* max_cache_size of the stand-alone cache.
CacheSizes == {0, 90, 130}

CacheKeys == {KAccount, KHash, KURef}

\* insert_write calls of the stand-alone cache: a key written twice and
\* another key.
CacheWrites ==
    {<<KHash, IntValue("I32", 7)>>, <<KHash, IntValue("U64", -1)>>,
     <<KURef, IntValue("I32", 7)>>}

CacheValues == {IntValue("I32", 7), IntValue("U512", -1)}

----------------------------------------------------------------------------
(* Runtime and exec (engine/src/execution.rs). *)

\* Runtime: the fields a host call works with; state is tcs[1].  memory is
\* what the host last wrote into the guest's memory.  iter is the order in
\* which the HashSet known_urefs iterates in this run, iter2 the order in a
\* second run of the same calls.
Runtime(args, known_urefs, iter, iter2) ==
    [args |-> args, known_urefs |-> known_urefs, result |-> <<>>,
     host_buf |-> <<>>, memory |-> <<>>, memory2 |-> <<>>,
     iter |-> iter, iter2 |-> iter2]

\* The orders a HashSet of the keys S can iterate in.
Orders(S) ==
    {o \in [1..Cardinality(S) -> S] : {o[i] : i \in 1..Cardinality(S)} = S}

\* Error: the variant and, for ArgIndexOutOfBounds, its index.
HostError(kind, index) == [kind |-> kind, index |-> index]
NoHostError == HostError("", 0)

\* What exec returns: Ok(effect) or Err(err).  The Err is the host error
\* that trapped under `wraps` Error::Interpreter: one from the `?` of exec
\* on invoke_export, and one from each sub_call the trap went through.
ExecOk(effect) ==
    [kind |-> "Ok", err |-> NoHostError, wraps |-> 0, effect |-> effect]
ExecErr(err, wraps) ==
    [kind |-> "Err", err |-> err, wraps |-> wraps,
     effect |-> Effect(TrackingCopyNew)]
NoOutcome ==
    [kind |-> "None", err |-> NoHostError, wraps |-> 0,
     effect |-> Effect(TrackingCopyNew)]

\* A host call: the function, the key, index, references and bytes handed
\* to it, what became of reading its arguments from memory, and the depth
\* of the Runtime that made it.
HostCall(fn, key, index, refs, bytes, mem) ==
    [fn |-> fn, key |-> key, index |-> index, refs |-> refs, bytes |-> bytes,
     mem |-> mem, depth |-> 0]
NoHostCall == HostCall("", NoKey, 0, {}, <<>>, "Ok")

\* A call that reached self.state: the function, its key and value, and the
\* depth of the Runtime that made it.
StateCall(fn, key, value, depth) ==
    [fn |-> fn, key |-> key, value |-> value, depth |-> depth]

\* No exec under way.  call is the last host call, size the value it gave
\* back to the guest (-1: none), fresh the number of URefs made, log the
\* calls that reached self.state, in the order they were made.
NoRun ==
    [status |-> "none", stack |-> <<>>, ended |-> "", outcome |-> NoOutcome,
     calls |-> 0, call |-> NoHostCall, size |-> -1, fresh |-> 0, log |-> <<>>]

----------------------------------------------------------------------------
(* The calls on the tracking copies. *)

Call(op, lvl, key, arg, path, res, val, err, cur) ==
    [op |-> op, lvl |-> lvl, key |-> key, arg |-> arg, path |-> path,
     res |-> res, val |-> val, err |-> err, cur |-> cur]

NoCall == Call("none", 0, NoKey, None, <<>>, "", None, NoError, None)

\* A tracking copy over the global state whose read cache holds max bytes.
TrackingCopySized(max) == [TrackingCopyNew EXCEPT !.cache = CacheNew(max)]

\* The twin: the copy, its last call, and the reader lookups made for it and
\* for tcs[1].
Twin(tc, call, lookups, plain) ==
    [tc |-> tc, last |-> call, lookups |-> lookups, plain |-> plain]
NoTwin == Twin(TrackingCopyNew, NoCall, 0, 0)

\* The copy calls act on: the last fork (its parents are borrowed).
Top == Len(tcs)

Frame == UNCHANGED <<reader, query, cache, seen, env, recency, wire, run, twin>>

Get(k) ==
    /\ steps < MaxOps
    /\ LET r == TCGet(reader, tcs, Top, k)
       IN  /\ tcs' = [tcs EXCEPT ![Top] = r.tc]
           /\ last' = Call("get", Top, k, None, <<>>, r.res.kind, r.res.value,
                           NoError, None)
    /\ steps' = steps + 1
    /\ Frame

Read(k) ==
    /\ steps < MaxOps
    /\ LET r == TCRead(reader, tcs, Top, k)
       IN  /\ tcs' = [tcs EXCEPT ![Top] = r.tc]
           /\ last' = Call("read", Top, k, None, <<>>, r.res.kind, r.res.value,
                           NoError, None)
    /\ steps' = steps + 1
    /\ Frame

WriteCall(k, v) ==
    /\ steps < MaxOps
    /\ tcs' = [tcs EXCEPT ![Top] = TCWrite(@, k, v)]
    /\ last' = Call("write", Top, k, v, <<>>, "Unit", None, NoError, None)
    /\ steps' = steps + 1
    /\ Frame

AddCall(k, v) ==
    /\ steps < MaxOps
    /\ LET r == TCAdd(reader, tcs, Top, k, v)
       IN  /\ tcs' = [tcs EXCEPT ![Top] = r.tc]
           /\ last' = Call("add", Top, k, v, <<>>, r.res.kind, None, r.res.err,
                           r.cur)
    /\ steps' = steps + 1
    /\ Frame

QueryCall(k, path) ==
    /\ steps < MaxOps
    /\ LET q == TCQuery(reader, tcs, Top, k, path)
       IN  last' = Call("query", Top, k, None, path, q.result, q.value,
                        NoError, None)
    /\ tcs' = tcs
    /\ steps' = steps + 1
    /\ Frame

\* TrackingCopy::fork: a new copy whose reader is the copy forked.
Fork ==
    /\ steps < MaxOps
    /\ Len(tcs) < MaxDepth
    /\ tcs' = Append(tcs, ForkedCopy(tcs[Top]))
    /\ last' = Call("fork", Top + 1, NoKey, None, <<>>, "", None, NoError, None)
    /\ steps' = steps + 1
    /\ Frame

\* The last fork goes out of scope; its parent can be used again.
Drop ==
    /\ steps < MaxOps
    /\ Len(tcs) > 1
    /\ tcs' = SubSeq(tcs, 1, Len(tcs) - 1)
    /\ last' = Call("drop", Top - 1, NoKey, None, <<>>, "", None, NoError, None)
    /\ steps' = steps + 1
    /\ Frame

Init ==
    /\ env \in Envs
    /\ reader = ReaderOf(env)
    /\ tcs = <<TrackingCopyNew>>
    /\ last = NoCall
    /\ steps = 0
    /\ query = NoQuery
    /\ cache = CacheNew(0)
    /\ seen = 0
    /\ recency = <<>>
    /\ wire = NoWire
    /\ run = NoRun
    /\ twin = NoTwin

Next ==
    \/ \E k \in PlainKeys : Get(k)
    \/ \E k \in ReadKeys : Read(k)
    \/ \E k \in CallKeys, v \in env.written : WriteCall(k, v)
    \/ \E k \in CallKeys : AddCall(k, env.operand)
    \/ \E q \in Queries : QueryCall(q[1], q[2])
    \/ Fork
    \/ Drop

Spec == Init /\ [][Next]_vars

----------------------------------------------------------------------------
(* The calls of Spec on a fork of a fork. *)

ForkEnvs ==
    {e \in Envs : e.stored = IntValue("U64", -1) /\ e.operand = IntValue("U64", 2)}

\* A copy forked from the top of chain (the first copy when chain is empty)
\* after no call, a write under the URef, or a get of it.
Prepared(e, chain) ==
    LET made == Append(chain, TrackingCopyNew)
    IN  {TrackingCopyNew}
        \cup {TCWrite(TrackingCopyNew, KURefRW, w) : w \in e.written}
        \cup {TCGet(ReaderOf(e), made, Len(made), KURef).tc}

RECURSIVE ForkChains(_, _)
\* The chains of n copies, each prepared and then forked.
ForkChains(e, n) ==
    IF n = 0 THEN {<<>>}
    ELSE UNION {{Append(chain, c) : c \in Prepared(e, chain)} :
                    chain \in ForkChains(e, n - 1)}

InitFork ==
    /\ env \in ForkEnvs
    /\ reader = ReaderOf(env)
    /\ tcs \in {Append(chain, TrackingCopyNew) : chain \in ForkChains(env, MaxDepth)}
    /\ last = NoCall
    /\ steps = 0
    /\ query = NoQuery
    /\ cache = CacheNew(0)
    /\ seen = 0
    /\ recency = <<>>
    /\ wire = NoWire
    /\ run = NoRun
    /\ twin = NoTwin

SpecFork == InitFork /\ [][Next]_vars

----------------------------------------------------------------------------
(* The same calls on two copies over one reader: tcs[1], made by          *)
(* TrackingCopy::new, and a twin whose read cache keeps nothing or one     *)
(* entry.                                                                  *)

TwinSizes == {0, 40}

\* The reader.read calls a get of k on the copy tc makes.
Lookups(tc, k) == Cardinality(TCGet(reader, <<tc>>, 1, Normalize(k)).asked)

\* Both copies have been called: what each is and returned, and the lookups
\* the call made for each.
TwinCalled(one, call, asked, other, otherCall, otherAsked) ==
    /\ steps < MaxOps
    /\ tcs' = <<one>>
    /\ last' = call
    /\ twin' = Twin(other, otherCall, twin.lookups + otherAsked,
                    twin.plain + asked)
    /\ steps' = steps + 1
    /\ UNCHANGED <<reader, query, cache, seen, env, recency, wire, run>>

GetCall(r, k) ==
    Call("get", 1, k, None, <<>>, r.res.kind, r.res.value, NoError, None)

TwinGet(k) ==
    LET one == TCGet(reader, tcs, 1, k)
        other == TCGet(reader, <<twin.tc>>, 1, k)
    IN  TwinCalled(one.tc, GetCall(one, k), Cardinality(one.asked),
                   other.tc, GetCall(other, k), Cardinality(other.asked))

ReadCall(r, k) ==
    Call("read", 1, k, None, <<>>, r.res.kind, r.res.value, NoError, None)

TwinRead(k) ==
    LET one == TCRead(reader, tcs, 1, k)
        other == TCRead(reader, <<twin.tc>>, 1, k)
    IN  TwinCalled(one.tc, ReadCall(one, k), Lookups(tcs[1], k),
                   other.tc, ReadCall(other, k), Lookups(twin.tc, k))

TwinWrite(k, v) ==
    LET call == Call("write", 1, k, v, <<>>, "Unit", None, NoError, None)
    IN  TwinCalled(TCWrite(tcs[1], k, v), call, 0,
                   TCWrite(twin.tc, k, v), call, 0)

AddedCall(a, k, v) ==
    Call("add", 1, k, v, <<>>, a.res.kind, None, a.res.err, a.cur)

TwinAdd(k, v) ==
    LET one == TCAdd(reader, tcs, 1, k, v)
        other == TCAdd(reader, <<twin.tc>>, 1, k, v)
    IN  TwinCalled(one.tc, AddedCall(one, k, v), Lookups(tcs[1], k),
                   other.tc, AddedCall(other, k, v), Lookups(twin.tc, k))

InitTwin ==
    /\ env \in Envs
    /\ reader = ReaderOf(env)
    /\ tcs = <<TrackingCopyNew>>
    /\ last = NoCall
    /\ steps = 0
    /\ query = NoQuery
    /\ cache = CacheNew(0)
    /\ seen = 0
    /\ recency = <<>>
    /\ wire = NoWire
    /\ run = NoRun
    /\ twin \in {Twin(TrackingCopySized(max), NoCall, 0, 0) : max \in TwinSizes}

NextTwin ==
    \/ \E k \in PlainKeys : TwinGet(k)
    \/ \E k \in ReadKeys : TwinRead(k)
    \/ \E k \in CallKeys, v \in env.written : TwinWrite(k, v)
    \/ \E k \in CallKeys : TwinAdd(k, env.operand)

SpecTwin == InitTwin /\ [][NextTwin]_vars

----------------------------------------------------------------------------
(* The query loop, one iteration per step. *)

NoEnv == MkEnv(None, {}, None, None)

QueryIter ==
    /\ query.result = "Running"
    /\ query' = QueryStep(reader, tcs, 1, query)
    /\ UNCHANGED <<reader, tcs, last, steps, cache, seen, env, recency, wire, run, twin>>

InitQuery ==
    /\ reader \in QueryReaders
    /\ tcs = <<TrackingCopyNew>>
    /\ last = NoCall
    /\ steps = 0
    /\ query \in {QueryNew(k, path) : k \in AllKeys, path \in Paths}
    /\ cache = CacheNew(0)
    /\ seen = 0
    /\ env = NoEnv
    /\ recency = <<>>
    /\ wire = NoWire
    /\ run = NoRun
    /\ twin = NoTwin

NextQuery == QueryIter

SpecQuery == InitQuery /\ [][NextQuery]_vars

\* The loop runs on until it returns.
SpecQueryFair == SpecQuery /\ WF_vars(NextQuery)

----------------------------------------------------------------------------
(* The stand-alone TrackingCopyCache. *)

Max(a, b) == IF a >= b THEN a ELSE b

CacheFrame == UNCHANGED <<reader, tcs, steps, query, env, wire, run, twin>>

\* The keys of a read cache.
CachedKeys(c) == {c.reads_cached[i].key : i \in 1..Len(c.reads_cached)}

\* The order of use r after a use of k.
Used(r, k) == SelectSeq(r, LAMBDA x : x # k) \o <<k>>

\* The order of use r without the keys that are no longer cached.
StillCached(r, c) == SelectSeq(r, LAMBDA x : x \in CachedKeys(c))

CacheInsertRead(k, v) ==
    /\ cache' = InsertRead(cache, k, v)
    /\ recency' = StillCached(Used(recency, k), InsertRead(cache, k, v))
    /\ seen' = Max(seen, Measure(k, v))
    /\ last' = Call("insert_read", 0, k, v, <<>>,
                    IF InsertRead(cache, k, v) = InsertReadNoEviction(cache, k, v)
                    THEN "kept" ELSE "evicted",
                    None, NoError,
                    IF LhmHas(cache.reads_cached, k)
                    THEN LhmValue(cache.reads_cached, k) ELSE None)
    /\ CacheFrame

CacheInsertWrite(k, v) ==
    /\ cache' = InsertWrite(cache, k, v)
    /\ last' = Call("insert_write", 0, k, v, <<>>, "", None, NoError, None)
    /\ UNCHANGED <<seen, recency>>
    /\ CacheFrame

CacheGetCall(k) ==
    /\ cache' = CacheGet(cache, k).cache
    /\ last' = Call("get", 0, k, None, <<>>,
                    IF CacheGet(cache, k).value = None THEN "None" ELSE "Some",
                    CacheGet(cache, k).value, NoError, None)
    /\ recency' = IF cache.muts_cached[k] = None /\ k \in CachedKeys(cache)
                  THEN Used(recency, k) ELSE recency
    /\ UNCHANGED seen
    /\ CacheFrame

InitCache ==
    /\ reader = MkReader(None, None, None)
    /\ tcs = <<TrackingCopyNew>>
    /\ last = NoCall
    /\ steps = 0
    /\ query = NoQuery
    /\ cache \in {CacheNew(max) : max \in CacheSizes}
    /\ seen = 0
    /\ env = NoEnv
    /\ recency = <<>>
    /\ wire = NoWire
    /\ run = NoRun
    /\ twin = NoTwin

NextCache ==
    \/ \E k \in CacheKeys, v \in CacheValues : CacheInsertRead(k, v)
    \/ \E w \in CacheWrites : CacheInsertWrite(w[1], w[2])
    \/ \E k \in CacheKeys : CacheGetCall(k)

SpecCache == InitCache /\ [][NextCache]_vars

----------------------------------------------------------------------------
(* A value through from_t, serialization, deserialization and into_t.     *)

\* The native values: [ty, x], x a value of the type tagged ty.
Natives ==
    {[ty |-> t, x |-> NativeInt(FromOffset(o, IntWidth(t)))] :
            t \in IntTypes, o \in {-1, 0, 5}}
    \cup {[ty |-> "Key", x |-> NativeKey(k)] : k \in AllKeys}
    \cup {[ty |-> "String", x |-> NativeString(c)] : c \in {<<>>, <<111, 107>>}}
    \cup {[ty |-> NamedKeyType, x |-> NativePair(OneName("a", k))] :
            k \in {KHash, KURefRW}}

\* CLValues built by from_components, their bytes no value of their type.
RawValues ==
    {CLValue("U64", <<1, 2>>), CLValue("Key", <<>>), CLValue("String", <<7>>)}

\* The second element of a Vec<CLValue>.
SecondValue == IntValue("I32", 7)

WireFrame == UNCHANGED <<reader, tcs, last, steps, query, cache, seen, env, recency, run, twin>>

\* CLValue::from_t(x)
CodecFromT ==
    /\ wire.phase = "native"
    /\ wire' = [wire EXCEPT !.phase = "value", !.vals = <<FromT(wire.ty, wire.x)>>]
    /\ WireFrame

\* One of the entry points of CLValue on the value.
CodecSerialize(entry, impl) ==
    /\ wire.phase = "value"
    /\ impl \in ImplsOf(entry)
    /\ wire' = [wire EXCEPT !.phase = "bytes", !.entry = entry, !.impl = impl,
                            !.bytes = Serialize(entry, wire.vals, impl)]
    /\ WireFrame

\* One of the entry points of Vec<CLValue> on a vector of n elements, the
\* value the first of them.
CodecSerializeVec(entry, impl, n) ==
    /\ wire.phase = "value"
    /\ LET vs == SubSeq(wire.vals \o <<SecondValue>>, 1, n)
       IN  wire' = [wire EXCEPT !.phase = "bytes", !.entry = entry, !.impl = impl,
                                !.vals = vs, !.bytes = Serialize(entry, vs, impl)]
    /\ WireFrame

\* deserialize::<CLValue> or deserialize::<Vec<CLValue>> of the bytes.
CodecDeserialize ==
    /\ wire.phase = "bytes"
    /\ wire' = [wire EXCEPT
                !.phase = "decoded",
                !.dec = IF wire.entry \in CLValueEntries
                        THEN LET p == Deserialize(CLValueFromBytes(wire.bytes), None)
                             IN  [p EXCEPT !.val = IF p.ok THEN <<p.val>> ELSE <<>>]
                        ELSE Deserialize(VecFromBytes(wire.bytes), <<>>)]
    /\ WireFrame

\* into_t::<U>, U tagged want, on the value from_t made or on the value
\* deserialize gave back.
CodecIntoT(want) ==
    /\ \/ wire.phase = "value" /\ wire.entry = ""
       \/ wire.phase = "decoded" /\ wire.dec.ok /\ Len(wire.dec.val) >= 1
    /\ LET v == IF wire.phase = "value" THEN wire.vals[1] ELSE wire.dec.val[1]
       IN  wire' = [wire EXCEPT !.phase = "extracted", !.want = want,
                                !.got = IntoTAs(v, want)]
    /\ WireFrame

InitCodec ==
    /\ reader = MkReader(None, None, None)
    /\ tcs = <<TrackingCopyNew>>
    /\ last = NoCall
    /\ steps = 0
    /\ query = NoQuery
    /\ cache = CacheNew(DefaultMaxCacheSize)
    /\ seen = 0
    /\ env = NoEnv
    /\ recency = <<>>
    /\ run = NoRun
    /\ twin = NoTwin
    /\ wire \in {[NoWire EXCEPT !.phase = "native", !.ty = n.ty, !.x = n.x] : n \in Natives}
            \cup {[NoWire EXCEPT !.phase = "value", !.vals = <<v>>] : v \in RawValues}

NextCodec ==
    \/ CodecFromT
    \/ \E entry \in CLValueEntries, impl \in IntoBytesImpls : CodecSerialize(entry, impl)
    \/ \E entry \in VecEntries, impl \in IntoBytesImpls, n \in 0..2 :
            CodecSerializeVec(entry, impl, n)
    \/ CodecDeserialize
    \/ \E want \in CLTypes : CodecIntoT(want)

SpecCodec == InitCodec /\ [][NextCodec]_vars

----------------------------------------------------------------------------
(* One exec: the guest's host calls, one per step, and the end of `call`.  *)

\* The global state exec runs on: the account with one URef, a value under
\* that URef, nothing under the hash.
ExecReader == MkReader(Account(OneName("a", KURefRW)), None, IntValue("I32", 7))

HostKeys == {KURef, KHash}
HostValues == {IntValue("I32", 5), IntValue("U64", 5)}
RetBytes == {<<>>, <<7>>}
CallArgs == {<<>>, <<<<1>>>>}
CallRefs == {{}, {KURefRW}}
FnNames == {"f", "g"}

\* What becomes of reading a call's arguments from the guest's memory:
\* read and decoded, memory.get refused, or the bytes not decodable.
ArgOutcomes == {"Ok", "Interpreter", "BytesRepr"}
\* What becomes of memory.set.
SetOutcomes == {"Ok", "Interpreter"}

\* Value::to_bytes of a value read.
ValueToBytes(v) == BytesToBytes(v.bytes) \o CLTypeToBytes(v.cl_type)

\* parity_wasm::serialize of the module cut down to one export.
FnBytes == <<0, 97, 115, 109>>

\* The names the module exports.
Exported == {"f"}

\* state.new_uref(): the n-th URef made in this execution.
NewURef(n) == MkKey("URef", 5 + n, "READ_ADD_WRITE")

ExecFrame == UNCHANGED <<reader, last, steps, query, cache, seen, env, recency, wire, twin>>

Depth == Len(run.stack)
Running == run.status = "running"
CanCall == Running /\ run.calls < MaxHostCalls

\* The current Runtime.
Current == run.stack[Depth]

\* The stack with field f of the current Runtime set to b.
WithTop(f, b) == [run.stack EXCEPT ![Depth] = [@ EXCEPT ![f] = b]]

\* A host call of the current Runtime went through: its stack after it and
\* the value given back to the guest.
Served(stack, size) ==
    [run EXCEPT !.stack = stack, !.calls = @ + 1, !.size = size]

TrappedReturnsEffect(err) ==
    [run EXCEPT !.status = "returned", !.ended = "Trap", !.outcome = ExecOk(Effect(tcs[1])),
                !.calls = @ + 1, !.size = -1]

TrappedEndsSubCallOnly(err) ==
    IF Depth > 1
    THEN [run EXCEPT !.stack = [SubSeq(run.stack, 1, Depth - 1) EXCEPT
                                    ![Depth - 1].host_buf = <<>>],
                     !.calls = @ + 1, !.size = 0]
    ELSE [run EXCEPT !.status = "returned", !.ended = "Trap",
                     !.outcome = ExecErr(err, 1), !.calls = @ + 1, !.size = -1]

\* A trap other than Ret in the current Runtime.  sub_call answers
\* Err(Error::Interpreter(e)) and call_contract passes it on with `?`, so
\* every enclosing `call` traps too, each with the error of its callee
\* inside Error::Interpreter, and exec returns the error.  The stack stays
\* as the trap found it.
Trapped(err) ==
    [run EXCEPT !.status = "returned", !.ended = "Trap",
                !.outcome = ExecErr(err, Depth), !.calls = @ + 1, !.size = -1]

\* r, with the call fn(key, value) of the current Runtime on self.state
\* added to the log when guest memory gave its arguments.
Logged(r, fn, key, value, mem) ==
    IF mem = "Ok"
    THEN [r EXCEPT !.log = Append(@, StateCall(fn, key, value, Depth))]
    ELSE r

\* r, with c the last host call, made by the current Runtime.
After(c, r) == [r EXCEPT !.call = [c EXCEPT !.depth = Depth]]

HostWriteOnOwnCopy(k, v, mem) ==
    /\ CanCall
    /\ tcs' = IF mem = "Ok" /\ Depth = 1
              THEN [tcs EXCEPT ![1] = TCWrite(@, k, v)] ELSE tcs
    /\ run' = Logged(After(HostCall("write", k, 0, {}, ValueToBytes(v), mem),
                           IF mem = "Ok" THEN Served(run.stack, -1)
                           ELSE Trapped(HostError(mem, 0))),
                     "write", k, v, mem)
    /\ ExecFrame

\* Runtime::write, on self.state: the tracking copy of exec, which sub_call
\* hands to the Runtime of every callee.
HostWrite(k, v, mem) ==
    /\ CanCall
    /\ tcs' = IF mem = "Ok" THEN [tcs EXCEPT ![1] = TCWrite(@, k, v)] ELSE tcs
    /\ run' = Logged(After(HostCall("write", k, 0, {}, ValueToBytes(v), mem),
                           IF mem = "Ok" THEN Served(run.stack, -1)
                           ELSE Trapped(HostError(mem, 0))),
                     "write", k, v, mem)
    /\ ExecFrame

\* Runtime::add: an add the state refuses is an Err, and the Err a trap.
HostAdd(k, v, mem) ==
    /\ CanCall
    /\ LET a == TCAdd(reader, tcs, 1, k, v)
       IN  /\ tcs' = IF mem = "Ok" THEN [tcs EXCEPT ![1] = a.tc] ELSE tcs
           /\ run' = Logged(After(HostCall("add", k, 0, {}, ValueToBytes(v), mem),
                                  IF mem # "Ok" THEN Trapped(HostError(mem, 0))
                                  ELSE IF a.res.kind = "Success"
                                  THEN Served(run.stack, -1)
                                  ELSE Trapped(HostError("Storage", 0))),
                            "add", k, v, mem)
    /\ ExecFrame

\* Runtime::read_value: the value staged in host_buf; no value is an Err,
\* and the Err a trap.
HostReadValue(k, mem) ==
    /\ CanCall
    /\ LET r == TCRead(reader, tcs, 1, k)
           bytes == ValueToBytes(r.res.value)
       IN  /\ tcs' = IF mem = "Ok" THEN [tcs EXCEPT ![1] = r.tc] ELSE tcs
           /\ run' = Logged(After(HostCall("read_value", k, 0, {}, <<>>, mem),
                                  IF mem # "Ok" THEN Trapped(HostError(mem, 0))
                                  ELSE IF r.res.kind = "Some"
                                  THEN Served(WithTop("host_buf", bytes),
                                              Len(bytes))
                                  ELSE Trapped(HostError("Storage", 0))),
                            "read_value", k, None, mem)
    /\ ExecFrame

\* The orders a HashSet that iterates in order o can iterate in once key is
\* inserted: the hash decides the place of key, the keys already there are
\* taken to keep their order.
Inserted(o, key) ==
    {SubSeq(o, 1, p) \o <<key>> \o SubSeq(o, p + 1, Len(o)) : p \in 0..Len(o)}

\* Runtime::new_uref: the key made is known to the current Runtime and its
\* bytes are written to memory.
HostNewUref(set, iter, iter2) ==
    /\ CanCall
    /\ LET key == NewURef(run.fresh)
           rt == [Current EXCEPT !.known_urefs = @ \cup {key}, !.iter = iter,
                                 !.iter2 = iter2]
           made == [run EXCEPT !.stack[Depth] = rt, !.fresh = @ + 1]
       IN  /\ iter \in Inserted(Current.iter, key)
           /\ iter2 \in Inserted(Current.iter2, key)
           /\ run' = After(HostCall("new_uref", key, 0, {}, <<>>, set),
                           IF set = "Ok"
                           THEN [made EXCEPT
                                   !.stack[Depth].memory = KeyToBytes(key),
                                   !.stack[Depth].memory2 = KeyToBytes(key),
                                   !.calls = @ + 1, !.size = -1]
                           ELSE [made EXCEPT
                                   !.status = "returned",
                                   !.ended = "Trap",
                                   !.outcome = ExecErr(HostError(set, 0), Depth),
                                   !.calls = @ + 1, !.size = -1])
    /\ UNCHANGED tcs
    /\ ExecFrame

\* Runtime::get_uref: the i-th key the set iterates over is written to
\* memory; nth(i).unwrap() panics when there is none.
HostGetUref(i, set) ==
    /\ CanCall
    /\ run' = After(HostCall("get_uref", NoKey, i, {}, <<>>, set),
                    IF i >= Len(Current.iter)
                    THEN [run EXCEPT !.status = "panicked", !.ended = "Panic",
                                     !.calls = @ + 1, !.size = -1]
                    ELSE IF set # "Ok" THEN Trapped(HostError(set, 0))
                    ELSE Served([run.stack EXCEPT
                            ![Depth].memory = KeyToBytes(Current.iter[i + 1]),
                            ![Depth].memory2 = KeyToBytes(Current.iter2[i + 1])],
                          -1))
    /\ UNCHANGED tcs
    /\ ExecFrame

\* Runtime::serialize_function
HostSerializeFunction(name, mem) ==
    /\ CanCall
    /\ run' = After(HostCall("serialize_function", NoKey, 0, {}, <<>>, mem),
                    IF mem # "Ok" THEN Trapped(HostError(mem, 0))
                    ELSE IF name \in Exported
                    THEN Served(WithTop("host_buf", FnBytes), Len(FnBytes))
                    ELSE Trapped(HostError("FunctionNotFound", 0)))
    /\ UNCHANGED tcs
    /\ ExecFrame

\* The functions that copy host_buf out.
CopyOuts == {"get_read", "get_function", "get_arg", "get_call_result"}

HostCopyOutOnlyGetRead(fn, set) ==
    /\ CanCall
    /\ run' = After(HostCall(fn, NoKey, 0, {}, <<>>, set),
                    IF set # "Ok" THEN Trapped(HostError(set, 0))
                    ELSE IF fn # "get_read" THEN Served(run.stack, -1)
                    ELSE Served([run.stack EXCEPT
                                    ![Depth].memory = Current.host_buf,
                                    ![Depth].memory2 = Current.host_buf],
                                -1))
    /\ UNCHANGED tcs
    /\ ExecFrame

\* Runtime::set_mem_from_buf, behind each of the copy-out functions.
HostCopyOut(fn, set) ==
    /\ CanCall
    /\ run' = After(HostCall(fn, NoKey, 0, {}, <<>>, set),
                    IF set # "Ok" THEN Trapped(HostError(set, 0))
                    ELSE Served([run.stack EXCEPT
                                    ![Depth].memory = Current.host_buf,
                                    ![Depth].memory2 = Current.host_buf],
                                -1))
    /\ UNCHANGED tcs
    /\ ExecFrame

HostLoadArgLenient(i) ==
    /\ CanCall
    /\ run' = After(HostCall("load_arg", NoKey, i, {}, <<>>, "Ok"),
                    IF i < Len(Current.args)
                    THEN Served(WithTop("host_buf", Current.args[i + 1]),
                                Len(Current.args[i + 1]))
                    ELSE Served(WithTop("host_buf", <<>>), 0))
    /\ UNCHANGED tcs
    /\ ExecFrame

\* Runtime::load_arg
HostLoadArg(i) ==
    /\ CanCall
    /\ run' = After(HostCall("load_arg", NoKey, i, {}, <<>>, "Ok"),
                    IF i < Len(Current.args)
                    THEN Served(WithTop("host_buf", Current.args[i + 1]),
                                Len(Current.args[i + 1]))
                    ELSE Trapped(HostError("ArgIndexOutOfBounds", i)))
    /\ UNCHANGED tcs
    /\ ExecFrame

ChildInheritsURefs(args, refs, iter, iter2) ==
    Runtime(args, refs \cup Current.known_urefs, iter, iter2)

\* sub_call up to invoke_export: the Runtime of the callee.
ChildRuntime(args, refs, iter, iter2) == Runtime(args, refs, iter, iter2)

\* Runtime::call_contract up to the callee's `call`: sub_call builds the
\* child Runtime over the same state.
HostCallContract(args, refs, iter, iter2, mem) ==
    /\ CanCall
    /\ Depth < MaxCallDepth
    /\ iter \in Orders(refs) /\ iter2 \in Orders(refs)
    /\ run' = After(HostCall("call_contract", NoKey, 0, refs, <<>>, mem),
                    IF mem # "Ok" THEN Trapped(HostError(mem, 0))
                    ELSE Served(run.stack \o <<ChildRuntime(args, refs, iter, iter2)>>,
                                -1))
    /\ UNCHANGED tcs
    /\ ExecFrame

SubCallKeepsHostBuf(result) ==
    [run EXCEPT !.stack = SubSeq(run.stack, 1, Depth - 1),
                !.size = Len(run.stack[Depth - 1].host_buf)]

\* The rest of sub_call and call_contract once the callee's `call` has
\* ended without a trap other than Ret: the callee's result is the caller's
\* host_buf, its length what call_contract gives back.
SubCallReturns(result) ==
    [run EXCEPT !.stack = [SubSeq(run.stack, 1, Depth - 1) EXCEPT
                                ![Depth - 1].host_buf = result],
                !.size = Len(result)]

\* Runtime::ret: result is set and `call` ends in the Ret trap.  In a
\* sub_call the trap is the callee's return; in exec the `?` on
\* invoke_export returns it as the error.  When memory.get refuses, the
\* trap is an interpreter error.
HostRet(bytes, mem) ==
    /\ Running
    /\ run' = After(HostCall("ret", NoKey, 0, {}, bytes, mem),
                    IF mem # "Ok" THEN Trapped(HostError(mem, 0))
                    ELSE IF Depth > 1 THEN SubCallReturns(bytes)
                    ELSE [run EXCEPT !.status = "returned",
                                     !.stack = WithTop("result", bytes),
                                     !.ended = "Ret",
                                     !.outcome = ExecErr(HostError("Ret", 0), 1),
                                     !.size = -1])
    /\ UNCHANGED tcs
    /\ ExecFrame

\* `call` returns: in a sub_call Ok(runtime.result), in exec
\* Ok(runtime.effect()).
ReturnNormally ==
    /\ Running
    /\ run' = After(HostCall("return", NoKey, 0, {}, <<>>, "Ok"),
                    IF Depth > 1 THEN SubCallReturns(Current.result)
                    ELSE [run EXCEPT !.status = "returned", !.ended = "Normal",
                                     !.outcome = ExecOk(Effect(tcs[1])),
                                     !.size = -1])
    /\ UNCHANGED tcs
    /\ ExecFrame

\* exec up to invoke_export: the tracking copy of the global state and the
\* Runtime with no arguments and the account's URefs.
InitExec ==
    /\ reader = ExecReader
    /\ tcs = <<TrackingCopyNew>>
    /\ last = NoCall
    /\ steps = 0
    /\ query = NoQuery
    /\ cache = CacheNew(DefaultMaxCacheSize)
    /\ seen = 0
    /\ env = NoEnv
    /\ recency = <<>>
    /\ wire = NoWire
    /\ run = [NoRun EXCEPT !.status = "running",
                           !.stack = <<Runtime(<<>>, {KURefRW}, <<KURefRW>>,
                                               <<KURefRW>>)>>]
    /\ twin = NoTwin

NextExec ==
    \/ \E k \in HostKeys, v \in HostValues, mem \in ArgOutcomes : HostWrite(k, v, mem)
    \/ \E k \in HostKeys, v \in HostValues, mem \in ArgOutcomes : HostAdd(k, v, mem)
    \/ \E k \in HostKeys, mem \in ArgOutcomes : HostReadValue(k, mem)
    \/ \E set \in SetOutcomes,
          iter \in Inserted(Current.iter, NewURef(run.fresh)),
          iter2 \in Inserted(Current.iter2, NewURef(run.fresh)) :
                HostNewUref(set, iter, iter2)
    \/ \E i \in 0..2, set \in SetOutcomes : HostGetUref(i, set)
    \/ \E name \in FnNames, mem \in ArgOutcomes : HostSerializeFunction(name, mem)
    \/ \E fn \in CopyOuts, set \in SetOutcomes : HostCopyOut(fn, set)
    \/ \E i \in 0..1 : HostLoadArg(i)
    \/ \E args \in CallArgs, refs \in CallRefs, mem \in ArgOutcomes :
            \E iter \in Orders(refs), iter2 \in Orders(refs) :
                    HostCallContract(args, refs, iter, iter2, mem)
    \/ \E bytes \in RetBytes, mem \in SetOutcomes : HostRet(bytes, mem)
    \/ ReturnNormally

SpecExec == InitExec /\ [][NextExec]_vars

----------------------------------------------------------------------------
(* Properties of TrackingCopy, checked under Spec.  In an action formula  *)
(* the primed `last` is the call the step makes, the unprimed state is    *)
(* the state the call starts in.                                          *)

EmptyEffect == [ops |-> EmptyOps, transforms |-> EmptyFns]

\* The value the copy calls act on holds for k before a call: its mutation
\* cache, else its reader (None when neither has one).
CurrentValue(k) ==
    LET m == tcs[Top].cache.muts_cached[Normalize(k)]
        r == ReaderRead(reader, tcs, Top, Normalize(k))
    IN  IF m # None THEN m ELSE r.value

\* k is in neither the mutation cache nor the reader.
KeyAbsent(k) ==
    /\ tcs[Top].cache.muts_cached[Normalize(k)] = None
    /\ ReaderRead(reader, tcs, Top, Normalize(k)).kind = "None"

\* The step left ops, transforms and the mutation cache of the copy as they
\* were.
NothingRecorded ==
    /\ tcs'[Top'].ops = tcs[Top].ops
    /\ tcs'[Top'].fns = tcs[Top].fns
    /\ tcs'[Top'].cache.muts_cached = tcs[Top].cache.muts_cached

\* v is not a CLValue of type I32, U64, U128, U256, U512 or (String, Key).
Unaddable(v) ==
    v.sv # "CLValue" \/ v.cl_type \notin (IntTypes \cup {NamedKeyType})

\* v is an integer CLValue whose bytes decode as its type.
WellFormedInt(v) ==
    /\ v.sv = "CLValue"
    /\ v.cl_type \in IntTypes
    /\ IntFromBytes(v.cl_type, v.bytes).ok

\* v is an integer CLValue and cur is not a CLValue of the same type.
WidthDiffers(v, cur) ==
    /\ v.sv = "CLValue"
    /\ v.cl_type \in IntTypes
    /\ cur # None
    /\ ~(cur.sv = "CLValue" /\ cur.cl_type = v.cl_type)

\* Offsets of the integers the behaviours of Spec reach.
Offsets == -2..(7 + 2 * MaxOps)

\* C1: after write(k, v) the effect has ops = Write and transforms =
\* Write(v) at normalize(k), and a read of k that follows on the same copy
\* returns v and leaves them so.
C1_WriteThenRead ==
    [][/\ last'.op = "write" =>
            LET nk == Normalize(last'.key)
            IN  /\ Effect(tcs'[Top']).ops[nk] = "Write"
                /\ Effect(tcs'[Top']).transforms[nk] = Write(last'.arg)
       /\ (/\ last.op = "write"
           /\ last'.op = "read"
           /\ Normalize(last'.key) = Normalize(last.key)) =>
            LET nk == Normalize(last.key)
            IN  /\ last'.res = "Some"
                /\ last'.val = last.arg
                /\ Effect(tcs'[Top']).ops[nk] = "Write"
                /\ Effect(tcs'[Top']).transforms[nk] = Write(last.arg)
      ]_vars

\* C1 witness: a key the global state does not hold was written and then
\* read back from the first copy.
C1_Witness ==
    /\ steps = 2
    /\ last.op = "read"
    /\ last.lvl = 1
    /\ reader[Normalize(last.key)] = None
    /\ last.res = "Some"
    /\ tcs[1].ops[Normalize(last.key)] = "Write"
    /\ tcs[1].fns[Normalize(last.key)] = Write(last.val)

\* C2: add on a key that is in neither the mutation cache nor the reader
\* returns KeyNotFound and leaves ops, transforms and the mutation cache as
\* they were; as the first call, the effect stays empty.
C2_AddMissingKey ==
    [][(last'.op = "add" /\ KeyAbsent(last'.key)) =>
            /\ last'.res = "KeyNotFound"
            /\ NothingRecorded
            /\ (steps = 0 => Effect(tcs'[1]) = EmptyEffect)
      ]_vars

\* C2 witness: an add of a well-formed integer that found no key, on a copy
\* that had recorded something before.
C2_Witness ==
    /\ last.op = "add"
    /\ last.res = "KeyNotFound"
    /\ WellFormedInt(last.arg)
    /\ Effect(tcs[Top]) # EmptyEffect

\* C3 as stated: add returns TypeMismatch whenever the operand is not of an
\* addable type or its integer type differs from the stored value's, and
\* records nothing.
C3_Original ==
    [][(/\ last'.op = "add"
        /\ \/ Unaddable(last'.arg)
           \/ WidthDiffers(last'.arg, CurrentValue(last'.key))) =>
            /\ last'.res = "TypeMismatch"
            /\ NothingRecorded
      ]_vars

\* C3 amended: when the key resolves to a current value, add returns
\* TypeMismatch if the operand is not of an addable type, or if it is a
\* well-formed integer whose type differs from the current value's, and
\* records nothing.
C3_AddTypeMismatch ==
    [][(/\ last'.op = "add"
        /\ CurrentValue(last'.key) # None
        /\ \/ Unaddable(last'.arg)
           \/ /\ WellFormedInt(last'.arg)
              /\ WidthDiffers(last'.arg, CurrentValue(last'.key))) =>
            /\ last'.res = "TypeMismatch"
            /\ NothingRecorded
      ]_vars

\* C3 witness: I32 added to a stored U64 was refused.
C3_Witness ==
    /\ last.op = "add"
    /\ last.res = "TypeMismatch"
    /\ last.arg = IntValue("I32", 2)
    /\ last.cur = IntValue("U64", -1)
    /\ tcs[Top].ops[Normalize(last.key)] # "Add"

\* C4: add of a well-formed integer n to a current integer x of the same
\* type succeeds and leaves x + n modulo 2^w in the mutation cache (x and n
\* given by their offsets from 0 and from 2^w).
C4_AddWraps ==
    (/\ last.op = "add"
     /\ WellFormedInt(last.arg)
     /\ last.cur # None
     /\ WellFormedInt(last.cur)
     /\ last.cur.cl_type = last.arg.cl_type) =>
        /\ last.res = "Success"
        /\ \E ox \in Offsets, on \in Offsets :
            /\ last.cur = IntValue(last.arg.cl_type, ox)
            /\ last.arg = IntValue(last.arg.cl_type, on)
            /\ tcs[Top].cache.muts_cached[Normalize(last.key)]
                  = IntValue(last.arg.cl_type, ox + on)

\* C4 witness: 2 added to u64::MAX left 1.
C4_Witness ==
    /\ last.op = "add"
    /\ last.res = "Success"
    /\ last.cur = IntValue("U64", -1)
    /\ last.arg = IntValue("U64", 2)
    /\ tcs[Top].cache.muts_cached[Normalize(last.key)] = IntValue("U64", 1)

\* C5: a fork starts with empty caches, ops and transforms and leaves its
\* parents as they are; a call on the fork changes no parent and, in the
\* fork's effect, only the entry of the key called on; dropping the fork
\* gives the parents back unchanged.
C5_ForkIsolation ==
    [][/\ last'.op = "fork" =>
            /\ SubSeq(tcs', 1, Len(tcs)) = tcs
            /\ Effect(tcs'[Top']) = EmptyEffect
            /\ tcs'[Top'].cache = CacheNew(DefaultMaxCacheSize)
       /\ last'.op = "drop" => tcs' = SubSeq(tcs, 1, Len(tcs) - 1)
       /\ (Len(tcs') = Len(tcs) /\ Len(tcs) >= 2) =>
            /\ SubSeq(tcs', 1, Len(tcs) - 1) = SubSeq(tcs, 1, Len(tcs) - 1)
            /\ \A j \in AllKeys \ {Normalize(last'.key)} :
                /\ tcs'[Top'].ops[j] = tcs[Top].ops[j]
                /\ tcs'[Top'].fns[j] = tcs[Top].fns[j]
      ]_vars

\* C5 witness: the parent wrote one value under a key, the fork another; each
\* effect holds its own write.
C5_Witness ==
    /\ Len(tcs) = 2
    /\ last.op = "write"
    /\ \E k \in NormKeys :
        /\ tcs[1].fns[k].t = "Write"
        /\ tcs[2].fns[k] = Write(last.arg)
        /\ tcs[1].fns[k] # tcs[2].fns[k]
        /\ tcs[1].ops[k] = "Write"
        /\ tcs[2].ops[k] = "Write"

\* C6: query changes nothing of the copies, and with an empty path it
\* answers what the copy's reader holds for the key, whatever the copy has
\* written or added there.
C6_QueryBypassesCache ==
    [][last'.op = "query" =>
            /\ tcs' = tcs
            /\ last'.path = <<>> =>
                LET r == ReaderRead(reader, tcs, Top, Normalize(last'.key))
                IN  CASE r.kind = "Some" ->
                            last'.res = "Success" /\ last'.val = r.value
                      [] r.kind = "None" -> last'.res = "ValueNotFound"
                      [] r.kind = "Err" -> last'.res = "Err"
      ]_vars

\* C6 witness: a query of a key the copy has a mutation for returned the
\* global state's value, not the mutation.
C6_Witness ==
    /\ last.op = "query"
    /\ last.lvl = 1
    /\ last.path = <<>>
    /\ last.res = "Success"
    /\ last.val = reader[Normalize(last.key)]
    /\ tcs[1].cache.muts_cached[Normalize(last.key)] \notin {None, last.val}

----------------------------------------------------------------------------
(* Properties of TrackingCopy::query, checked under SpecQuery: `query` is *)
(* the Query state between iterations of the loop.                        *)

\* What the reader of the querying copy holds for k.
Held(k) == ReaderRead(reader, tcs, 1, k)

\* The path the query was called with.
QueryPath == query.visited_names \o query.unvisited_names

\* The ways a query returns.
Returned == {"Success", "ValueNotFound", "CircularReference", "Err"}

\* The keys the query went through: those it read, but for the one it
\* returned the value of.
Traversed ==
    IF query.result = "Success"
    THEN query.visited_keys \ {query.current_key}
    ELSE query.visited_keys

\* C7: an iteration that starts at a normalized key the query has visited
\* returns CircularReference, and nothing else does; two Key values that
\* point at each other, queried with a non-empty path, end so.
C7_QueryCircularReference ==
    /\ [][(query.result = "Running" /\ query.current_key \in query.visited_keys)
            => (query'.result = "CircularReference" /\ query'.value = None)]_vars
    /\ [](query.result = "CircularReference"
            => query.current_key \in query.visited_keys)
    /\ []((/\ reader[KHash] = KeyValue(KURefRW)
           /\ reader[KURef] = KeyValue(KHash)
           /\ query.base_key \in {KHash, KURef, KURefRW}
           /\ QueryPath # <<>>
           /\ query.result # "Running") => query.result = "CircularReference")

\* C7 witness: A -> B -> A through Key values, queried from A with a name,
\* returned CircularReference on the third iteration.
C7_Witness ==
    /\ reader[KHash] = KeyValue(KURefRW)
    /\ reader[KURef] = KeyValue(KHash)
    /\ query.base_key = KHash
    /\ query.unvisited_names # <<>>
    /\ query.visited_keys = {KHash, KURef}
    /\ query.iters = 3
    /\ query.result = "CircularReference"

C9_QueryPathConsumption ==
    /\ [](Len(query.visited_names)
            = Cardinality({k \in Traversed :
                            Held(k).value.sv \in {"Account", "Contract"}}))
    /\ [](query.result = "Success" =>
            /\ query.unvisited_names = <<>>
            /\ Held(query.current_key).kind = "Some"
            /\ query.value = Held(query.current_key).value)
    /\ [][(/\ query.result = "Running"
           /\ query.current_key \notin query.visited_keys
           /\ Held(query.current_key).kind = "Some") =>
            LET v == Held(query.current_key).value
                names == query.unvisited_names
            IN  CASE names = <<>> ->
                        query'.result = "Success" /\ query'.value = v
                  [] names # <<>> /\ v.sv \in {"Account", "Contract"} ->
                        /\ query'.unvisited_names = Tail(names)
                        /\ query'.visited_names
                              = Append(query.visited_names, Head(names))
                        /\ query'.result \in {"Running", "ValueNotFound"}
                        /\ query'.result = "Running" <=>
                              v.named_keys[Head(names)] # NoKey
                        /\ query'.result = "Running" =>
                              query'.current_key
                                = Normalize(v.named_keys[Head(names)])
                  [] names # <<>> /\ v.sv = "CLValue" /\ v.cl_type = "Key" ->
                        /\ query'.unvisited_names = names
                        /\ query'.visited_names = query.visited_names
                  [] OTHER ->
                        /\ query'.result = "ValueNotFound"
                        /\ query'.unvisited_names = names]_vars
    /\ []((/\ reader[KAccount] = Account(OneName("a", KHash))
           /\ reader[KHash] = Contract(OneName("b", KURefRW))
           /\ reader[KURef] = OkString
           /\ query.base_key = KAccount
           /\ QueryPath = <<"a", "b">>
           /\ query.result # "Running") =>
            (query.result = "Success" /\ query.value = OkString))

\* C9 witness: Account{a -> Hash}, Hash -> Contract{b -> URef}, URef -> "ok",
\* queried with a, b, returned "ok" after three iterations.
C9_Witness ==
    /\ reader[KAccount] = Account(OneName("a", KHash))
    /\ reader[KHash] = Contract(OneName("b", KURefRW))
    /\ reader[KURef] = OkString
    /\ query.base_key = KAccount
    /\ query.visited_names = <<"a", "b">>
    /\ query.iters = 3
    /\ query.result = "Success"
    /\ query.value = OkString

----------------------------------------------------------------------------
(* Properties of TrackingCopyCache, checked under SpecCache: `seen` is the *)
(* largest element size insert_read has measured.                          *)

\* C10: after any insert_read calls current_cache_size is at most
\* max_cache_size plus the largest single element size seen.
C10_CacheSizeBound ==
    cache.current_cache_size <= cache.max_cache_size + seen

\* C10 witness: an insert_read of a key the read cache already held evicted
\* entries of a cache with room for some.
C10_Witness ==
    /\ last.op = "insert_read"
    /\ last.res = "evicted"
    /\ last.cur # None
    /\ cache.max_cache_size > 0
    /\ cache.current_cache_size > 0

\* C11: the mutation cache changes only by insert_write, and only at the
\* key written, which then holds the value written; whatever insert_read
\* has evicted, get of a key it holds returns the value it holds.
C11_MutsNeverEvicted ==
    /\ [][\A k \in AllKeys :
            cache'.muts_cached[k] # cache.muts_cached[k] =>
                /\ last'.op = "insert_write"
                /\ last'.key = k]_vars
    /\ [][last'.op = "insert_write" =>
            cache'.muts_cached[last'.key] = last'.arg]_vars
    /\ [][(last'.op = "get" /\ cache.muts_cached[last'.key] # None) =>
            (last'.res = "Some" /\ last'.val = cache.muts_cached[last'.key])]_vars

\* C11 witness: with max_cache_size 0 a key was written, the same key and
\* others went through insert_read and were evicted, and get returned the
\* value written.
C11_Witness ==
    /\ cache.max_cache_size = 0
    /\ seen > Measure(KHash, IntValue("I32", 7))
    /\ cache.reads_cached = <<>>
    /\ last.op = "get"
    /\ last.key = KHash
    /\ last.val = IntValue("I32", 7)
    /\ cache.muts_cached[KHash] = IntValue("I32", 7)

\* Place of key k in the order of use r.
UsePlace(r, k) == CHOOSE i \in 1..Len(r) : r[i] = k

\* C12: the entries an insert_read evicts were all used less recently than
\* every entry it keeps, a use being the entry's insert_read or a later get
\* that hit it in the read cache; get and insert_write evict nothing.
C12_EvictsLeastRecentlyUsed ==
    /\ [][last'.op = "insert_read" =>
            LET r == Used(recency, last'.key)
                evicted == (CachedKeys(cache) \cup {last'.key})
                                \ CachedKeys(cache')
            IN  \A e \in evicted, s \in CachedKeys(cache') :
                    UsePlace(r, e) < UsePlace(r, s)]_vars
    /\ [][last'.op \in {"get", "insert_write"} =>
            CachedKeys(cache') = CachedKeys(cache)]_vars
    /\ [](CachedKeys(cache) = {recency[i] : i \in 1..Len(recency)})

\* C12 witness: with two entries cached, the insert_read of a third key
\* evicted the one used least recently and kept the other.
C12_Witness ==
    /\ last.op = "insert_read"
    /\ last.res = "evicted"
    /\ last.key = KURef
    /\ recency = <<KAccount, KURef>>
    /\ cache.reads_cached
          = <<Entry(KAccount, IntValue("I32", 7)), Entry(KURef, IntValue("I32", 7))>>
    /\ cache.muts_cached[KHash] = None

----------------------------------------------------------------------------
(* Properties of TrackingCopy, continued (Spec). *)

\* k is in the read cache or the mutation cache of the copy at place j.
InCaches(j, k) ==
    \/ tcs[j].cache.muts_cached[k] # None
    \/ LhmHas(tcs[j].cache.reads_cached, k)

\* The copies whose reader.read the call of a step reaches, for the key the
\* call starts at.
AskedBy(call) ==
    IF call.op \in {"get", "read", "add"}
    THEN TCGet(reader, tcs, Top, Normalize(call.key)).asked
    ELSE IF call.op = "query"
    THEN ReaderAsked(tcs, Top, Normalize(call.key))
    ELSE {}

\* C13 as stated: no call reaches reader.read(k) of a copy that has k in its
\* read cache or its mutation cache.
C13_Original ==
    [][\A j \in AskedBy(last') : ~InCaches(j, Normalize(last'.key))]_vars

\* C13 amended: get, and read and add through it, reach the reader of the
\* copy called only for a key that is in neither of its caches, and the
\* reader of a parent only for a key that is not in the parent's mutation
\* cache.
C13_GetAsksReaderOnMiss ==
    [][last'.op \in {"get", "read", "add"} =>
        \A j \in AskedBy(last') :
            /\ j = Top => ~InCaches(j, Normalize(last'.key))
            /\ tcs[j].cache.muts_cached[Normalize(last'.key)] = None]_vars

\* C13 witness: a read on a fork went to the global state through a parent
\* that holds the key in its read cache and has no mutation for it.
C13_Witness ==
    /\ Len(tcs) = 2
    /\ last.op = "read"
    /\ last.lvl = 2
    /\ last.res = "Some"
    /\ last.val = reader[Normalize(last.key)]
    /\ LhmHas(tcs[1].cache.reads_cached, Normalize(last.key))
    /\ tcs[1].cache.muts_cached[Normalize(last.key)] = None
    /\ tcs[2].cache.reads_cached = <<Entry(Normalize(last.key), last.val)>>

\* The Op a call contributes at the key it succeeded on ("NoOp" when it
\* contributes none): a read that found a value, a write, an add that
\* returned Success.
Contribution(call) ==
    CASE call.op = "read" /\ call.res = "Some" -> "Read"
      [] call.op = "write" -> "Write"
      [] call.op = "add" /\ call.res = "Success" -> "Add"
      [] OTHER -> "NoOp"

\* The join of the lattice NoOp < Read < Write / Add of an entry a (absent
\* or an Op) with a contribution c: Write with anything is Write, Add with
\* Add is Add, Read gives way to the other.
Join(a, c) ==
    CASE c = "NoOp" -> a
      [] c # "NoOp" /\ a \in {"Absent", "NoOp"} -> c
      [] c # "NoOp" /\ a = "Write" -> "Write"
      [] c = "Write" /\ a \in {"Read", "Add"} -> "Write"
      [] c = "Read" /\ a \in {"Read", "Add"} -> a
      [] c = "Add" /\ a \in {"Read", "Add"} -> "Add"

\* C14: a new copy has no ops; every call leaves at the normalized key it is
\* made on the join of what ops held there and the call's contribution, and
\* leaves every other key's entry alone; so ops[k] is the join of the
\* contributions of the successful calls on k in call order, and k is absent
\* until a call on it succeeds.
C14_OpsAreJoinOfCalls ==
    /\ [][last'.op = "fork" => tcs'[Top'].ops = [k \in AllKeys |-> "Absent"]]_vars
    /\ [][Len(tcs') = Len(tcs) =>
            \A k \in AllKeys :
                tcs'[Top'].ops[k]
                    = IF k = Normalize(last'.key)
                      THEN Join(tcs[Top].ops[k], Contribution(last'))
                      ELSE tcs[Top].ops[k]]_vars
    /\ [](steps = 0 => tcs[1].ops = [k \in AllKeys |-> "Absent"])

\* C14 witness: three calls on one key, a read or add among them and a write
\* the last, left Write; a key no call succeeded on is absent.
C14_Witness ==
    /\ steps = 3
    /\ Len(tcs) = 1
    /\ last.op = "write"
    /\ tcs[1].ops[KURef] = "Write"
    /\ tcs[1].fns[KURef] = Write(last.arg)
    /\ tcs[1].cache.reads_cached # <<>>
    /\ tcs[1].ops[KHash] = "Absent"

\* C15: in every copy, for every key it has written or added to, the
\* transform accumulated for the key, applied to what the copy's reader
\* holds for the key, gives the value the mutation cache holds.
C15_TransformsReplayToMuts ==
    \A i \in 1..Len(tcs) : \A k \in AllKeys :
        tcs[i].cache.muts_cached[k] # None =>
            /\ tcs[i].fns[k] # NoTransform
            /\ TransformApply(tcs[i].fns[k], ReaderRead(reader, tcs, i, k).value)
                  = ApplyOk(tcs[i].cache.muts_cached[k])

\* C15 witness: a write followed by two adds, the transform being the Write
\* of the sum and the reader holding another value.
C15_Witness ==
    /\ steps = 3
    /\ last.op = "add"
    /\ last.res = "Success"
    /\ WellFormedInt(last.arg)
    /\ tcs[1].ops[KURef] = "Write"
    /\ tcs[1].fns[KURef] = Write(tcs[1].cache.muts_cached[KURef])
    /\ tcs[1].cache.muts_cached[KURef] = IntValue(last.arg.cl_type, 11)
    /\ reader[KURef] # tcs[1].cache.muts_cached[KURef]

\* A key that carries no access rights.
IsNormalized(k) == k.tag = "URef" => k.rights = "NONE"

\* Keys that differ at most in their access rights.
SameButRights(j, k) == j.tag = k.tag /\ j.addr = k.addr

\* C16: every key with an entry in ops, in transforms or in the mutation
\* cache of a copy carries no access rights; a read, write or add changes
\* entries only at the key that is the call's key without its rights; and a
\* read with a key that differs from the key just written only in its access
\* rights returns the value written.
C16_KeysAreNormalized ==
    /\ [](\A i \in 1..Len(tcs) : \A k \in AllKeys :
            (\/ tcs[i].ops[k] # "Absent"
             \/ tcs[i].fns[k] # NoTransform
             \/ tcs[i].cache.muts_cached[k] # None) => IsNormalized(k))
    /\ [][(last'.op \in {"read", "write", "add"} /\ Len(tcs') = Len(tcs)) =>
            \A k \in AllKeys :
                ~(SameButRights(k, last'.key) /\ IsNormalized(k)) =>
                    /\ tcs'[Top'].ops[k] = tcs[Top].ops[k]
                    /\ tcs'[Top'].fns[k] = tcs[Top].fns[k]
                    /\ tcs'[Top'].cache.muts_cached[k]
                          = tcs[Top].cache.muts_cached[k]]_vars
    /\ [][(/\ last.op = "write"
           /\ last'.op = "read"
           /\ last'.lvl = last.lvl
           /\ SameButRights(last.key, last'.key)) =>
            (last'.res = "Some" /\ last'.val = last.arg)]_vars

\* C16 witness: a value written under a URef with access rights was read
\* back under the same URef without them, from the one entry both act on.
C16_Witness ==
    /\ last.op = "read"
    /\ last.key = KURef
    /\ last.res = "Some"
    /\ tcs[Top].ops[KURef] = "Write"
    /\ tcs[Top].fns[KURef] = Write(last.val)
    /\ tcs[Top].cache.muts_cached[KURef] = last.val
    /\ tcs[Top].cache.muts_cached[KURefRW] = None
    /\ last.val # reader[KURef]

----------------------------------------------------------------------------
(* Properties of the CLValue codec (SpecCodec). *)

\* The value into_t is called on came from from_t of a native value.
FromNative == wire.ty # ""

\* C17: serializing a CLValue through any of its entry points
\* (IntoBytes::into_bytes, ToBytes::to_bytes, ToBytes::into_bytes) and
\* deserializing the bytes gives the CLValue back, nothing left over, and
\* into_t of the value given back returns the native value it was made from.
C17_RoundTripEveryEntry ==
    /\ (wire.phase = "decoded" /\ wire.entry \in CLValueEntries)
            => (wire.dec.ok /\ wire.dec.val = wire.vals)
    /\ (wire.phase = "extracted" /\ wire.entry \in CLValueEntries
            /\ FromNative /\ wire.want = wire.ty)
            => (wire.got.ok /\ wire.got.val = wire.x)

\* The wire form of a CLValue: the length-prefixed bytes, then the type.
WireForm(v) == BytesToBytes(v.bytes) \o CLTypeToBytes(v.cl_type)

\* The wire form of a Vec<CLValue>: the count, then each element.
VecWireForm(vs) ==
    U32Bytes(Len(vs)) \o Concat([i \in 1..Len(vs) |-> WireForm(vs[i])])

\* C18: every serialization path of CLValue and of Vec<CLValue> writes the
\* length-prefixed payload bytes first and the type tag after them, a vector
\* as its count and then each element in that form, and FromBytes reads the
\* values back from what was written.
C18_BytesThenTypeOnEveryPath ==
    /\ (wire.phase = "bytes" /\ wire.entry \in CLValueEntries)
            => wire.bytes = WireForm(wire.vals[1])
    /\ (wire.phase = "bytes" /\ wire.entry \in VecEntries)
            => wire.bytes = VecWireForm(wire.vals)
    /\ (wire.phase = "decoded" /\ wire.entry \in VecEntries)
            => (wire.dec.ok /\ wire.dec.val = wire.vals)

\* into_t was called on the value from_t made, nothing in between.
Extracted == wire.phase = "extracted" /\ FromNative /\ wire.entry = ""

\* C19: from_t(x).into_t::<T>() returns Ok(x) for x of type T, and
\* from_t::<T>(x).into_t::<U>() for U of another type tag returns the Type
\* error with expected U's tag and found T's tag: no Serialization error and
\* no decoded value, whether or not the bytes decode as U.
C19_FromTIntoT ==
    Extracted =>
        IF wire.want = wire.ty
        THEN wire.got.ok /\ wire.got.val = wire.x
        ELSE /\ ~wire.got.ok
             /\ wire.got.err = TypeMismatch(wire.want, wire.ty)

\* Witness: a U128 made by from_t, its bytes a good U256, was asked for as a
\* U256 and the Type error came back.
C19_Witness ==
    /\ Extracted
    /\ wire.ty = "U128" /\ wire.want = "U256"
    /\ Decode("U256", wire.vals[1].bytes).ok
    /\ wire.got.err.kind = "TypeMismatch"

----------------------------------------------------------------------------
(* Properties of exec (SpecExec). *)

\* exec has returned, the top-level `call` having ended in the way given.
ExecEnded(how) == run.status = "returned" /\ run.ended = how

\* C20: an exec whose `call` ends by calling ret succeeds like one whose
\* `call` returns: either way exec returns Ok with the effect the tracking
\* copy has accumulated, so the same host calls give the same effect.
C20_RetSucceedsLikeReturn ==
    (ExecEnded("Ret") \/ ExecEnded("Normal"))
        => (run.outcome.kind = "Ok" /\ run.outcome.effect = Effect(tcs[1]))

\* C21: exec returns an effect only when the top-level `call` returned or
\* ended in Ret; when it ends in any other trap (memory refused, bytes not
\* decodable, ArgIndexOutOfBounds, FunctionNotFound, the state's Err, a
\* trap inside a sub-call) exec returns the error and no effect, whatever
\* was written or added before.
C21_EffectOnlyWithoutTrap ==
    /\ run.outcome.kind = "Ok"
            => (ExecEnded("Normal") \/ ExecEnded("Ret"))
    /\ ExecEnded("Trap")
            => (run.outcome.kind = "Err" /\ run.outcome.err.kind # "Ret")

\* Witness: a sub-call trapped on an argument index after a write had gone
\* into the tracking copy, and exec returned the error.
C21_Witness ==
    /\ ExecEnded("Trap")
    /\ run.outcome.kind = "Err"
    /\ run.outcome.err = HostError("ArgIndexOutOfBounds", 1)
    /\ Effect(tcs[1]) # EmptyEffect
    /\ run.call.fn = "load_arg" /\ run.call.depth = 2

\* In an action formula of SpecExec the primed run.call is the host call
\* the step makes and the unprimed Current the Runtime that makes it.
HostStep(fns) ==
    /\ run'.calls = run.calls + 1
    /\ run'.call.fn \in fns
    /\ run'.call.mem = "Ok"

\* The Runtime rt may use the URef k: it is among its known_urefs, whatever
\* the access rights, or was made by new_uref in this execution.
Known(rt, k) ==
    \/ \E u \in rt.known_urefs : Normalize(u) = Normalize(k)
    \/ \E n \in 0..(run.fresh - 1) : Normalize(NewURef(n)) = Normalize(k)

\* The step reads, writes or adds under a URef the current Runtime may not
\* use, or passes one to a callee.
ForgedUse ==
    \/ /\ HostStep({"write", "add", "read_value"})
       /\ run'.call.key.tag = "URef"
       /\ ~Known(Current, run'.call.key)
    \/ /\ HostStep({"call_contract"})
       /\ \E r \in run'.call.refs : ~Known(Current, r)

\* C22: a host call that reads, writes or adds under a URef that is neither
\* in the Runtime's known_urefs nor made by new_uref in this execution, or
\* passes such a URef to a callee, traps with ForgedReference, leaves the
\* tracking copy alone and starts no callee.
C22_ForgedReferenceTraps ==
    [][ForgedUse =>
            /\ run'.ended = "Trap"
            /\ run'.outcome.err.kind = "ForgedReference"
            /\ tcs' = tcs]_vars

\* C23: the Runtime sub_call builds knows exactly the references passed in
\* the call, none of the caller's others, and no step of a callee, its
\* new_uref included, changes the known_urefs of a Runtime below it.
C23_KnownURefsPrivate ==
    [][/\ (HostStep({"call_contract"}) /\ Len(run'.stack) = Depth + 1)
            => run'.stack[Depth + 1].known_urefs = run'.call.refs
       /\ \A i \in 1..Len(run'.stack) :
            i < Depth => run'.stack[i].known_urefs = run.stack[i].known_urefs]_vars

\* Witness: a callee that was passed no reference made a URef; it knows that
\* URef and nothing else, and its caller knows only the account's.
C23_Witness ==
    /\ Running /\ Depth = 2
    /\ run.call.fn = "new_uref" /\ run.call.depth = 2 /\ run.call.mem = "Ok"
    /\ run.stack[2].known_urefs = {run.call.key}
    /\ run.stack[1].known_urefs = {KURefRW}

\* The step is the return of a callee to its caller.
SubCallReturn ==
    Running /\ run'.status = "running" /\ Len(run'.stack) = Depth - 1

\* C24: when call_contract returns, the caller's host_buf is the bytes the
\* callee passed to ret, or empty when the callee's `call` returned; the
\* size call_contract gives back is their length, and nothing of the
\* caller's earlier host_buf is left.
C24_CallResultInHostBuf ==
    [][SubCallReturn =>
            LET result == IF run'.call.fn = "ret" THEN run'.call.bytes ELSE <<>>
            IN  /\ run'.stack[Depth - 1].host_buf = result
                /\ run'.size = Len(result)]_vars

\* Witness: the caller had staged and copied out a value read before the
\* call; the callee returned without ret and the caller's host_buf is empty.
C24_Witness ==
    /\ Running /\ Depth = 1
    /\ run.call.fn = "return" /\ run.call.depth = 2
    /\ run.stack[1].memory = ValueToBytes(IntValue("I32", 7))
    /\ run.stack[1].host_buf = <<>>
    /\ run.size = 0

\* The step is a host call among fns after which the guest runs on.
ServedStep(fns) == HostStep(fns) /\ run'.status = "running"

\* The host_buf of the Runtime at place i of the stack after the step.
HostBufAfter(i) == run'.stack[i].host_buf

\* C25: read_value, serialize_function and load_arg put their result in
\* host_buf and give back its length (call_contract does on its return);
\* each copy-out function writes host_buf to the guest's memory, whichever
\* call staged it; no other call changes host_buf, and no callee changes
\* the host_buf of a Runtime below it before it returns.
C25_SizeProbeThenCopy ==
    [][/\ ServedStep({"read_value"}) =>
            LET b == ValueToBytes(TCRead(reader, tcs, 1, run'.call.key).res.value)
            IN  HostBufAfter(Depth) = b /\ run'.size = Len(b)
       /\ ServedStep({"serialize_function"}) =>
            (HostBufAfter(Depth) = FnBytes /\ run'.size = Len(FnBytes))
       /\ ServedStep({"load_arg"}) =>
            LET b == Current.args[run'.call.index + 1]
            IN  HostBufAfter(Depth) = b /\ run'.size = Len(b)
       /\ ServedStep(CopyOuts) =>
            run'.stack[Depth].memory = Current.host_buf
       /\ ServedStep(CopyOuts \cup {"write", "add", "new_uref", "get_uref",
                                   "call_contract"}) =>
            HostBufAfter(Depth) = Current.host_buf
       /\ \A i \in 1..Len(run'.stack) :
            (i < Depth /\ ~(SubCallReturn /\ i = Depth - 1))
                => HostBufAfter(i) = run.stack[i].host_buf]_vars

\* Witness: get_arg copied out the bytes read_value had staged.
C25_Witness ==
    /\ Running
    /\ run.call.fn = "get_arg" /\ run.call.mem = "Ok"
    /\ Current.host_buf = ValueToBytes(IntValue("I32", 7))
    /\ Current.memory = Current.host_buf

\* C26: load_arg of an index at or past the number of arguments of the
\* current Runtime traps with ArgIndexOutOfBounds of that index and leaves
\* host_buf as it was; an index below it stages that argument.  The Runtime
\* exec builds has no arguments, so each index traps there.
C26_LoadArgBounds ==
    [][HostStep({"load_arg"}) =>
            /\ Depth = 1 => Current.args = <<>>
            /\ IF run'.call.index >= Len(Current.args)
               THEN /\ run'.ended = "Trap"
                    /\ run'.outcome.err =
                            HostError("ArgIndexOutOfBounds", run'.call.index)
                    /\ HostBufAfter(Depth) = Current.host_buf
               ELSE /\ run'.status = "running"
                    /\ HostBufAfter(Depth) = Current.args[run'.call.index + 1]]_vars

\* Witness: the top-level Runtime, a function staged in its host_buf, asked
\* for argument 0 and trapped, host_buf still holding the function.
C26_Witness ==
    /\ ExecEnded("Trap")
    /\ run.call.fn = "load_arg" /\ run.call.depth = 1 /\ run.call.index = 0
    /\ run.outcome.err = HostError("ArgIndexOutOfBounds", 0)
    /\ run.stack[1].host_buf = FnBytes

\* C27: exec is deterministic: two runs from the same state under the same
\* module and the same host calls leave the same bytes in guest memory,
\* get_uref(i) included.  memory is what this run wrote and memory2 what a
\* second run of the same calls wrote.
C27_GetUrefDeterministic ==
    \A i \in 1..Len(run.stack) : run.stack[i].memory = run.stack[i].memory2

\* C28: a key that is missing, on read_value or on add, and an operand of
\* another type on add, are answered to the guest with a non-zero code: the
\* execution keeps running and does not trap.
MissingOrMismatched ==
    LET c == run'.call
        found == TCRead(reader, tcs, 1, c.key).res.kind
    IN  \/ c.fn \in {"read_value", "add"} /\ found = "None"
        \/ /\ c.fn = "add" /\ found = "Some"
           /\ \E v \in HostValues :
                /\ ValueToBytes(v) = c.bytes
                /\ TCAdd(reader, tcs, 1, c.key, v).res.kind = "TypeMismatch"

C28_MissingKeyIsRecoverable ==
    [][(HostStep({"read_value", "add"}) /\ MissingOrMismatched) =>
            (run'.status = "running" /\ run'.size > 0)]_vars

----------------------------------------------------------------------------
(* Properties of the size of the read cache (SpecCache). *)

RECURSIVE SumMeasure(_)
\* The sum of Meter::measure over the entries of a LinkedHashMap.
SumMeasure(m) ==
    IF m = <<>> THEN 0
    ELSE Measure(Head(m).key, Head(m).value) + SumMeasure(Tail(m))

\* C29: in every state of a TrackingCopyCache, after any insert_read (of a
\* key already in the read cache too), insert_write and get,
\* current_cache_size is the sum of the measures of the entries of
\* reads_cached, whatever muts_cached holds.
C29_SizeIsSumOfReads ==
    cache.current_cache_size = SumMeasure(cache.reads_cached)

----------------------------------------------------------------------------
(* Properties of reads through forks (SpecFork). *)

\* The ancestors of the top copy that hold a mutation of k.
MutatedAbove(k) ==
    {j \in 1..(Top - 1) : tcs[j].cache.muts_cached[k] # None}

Nearest(A) == CHOOSE j \in A : \A i \in A : i <= j

\* C30: a get or read on a fork for a key in neither of its own caches is
\* answered by the mutation cache of the nearest ancestor that holds the
\* key, and by the base reader when none does; the readers asked are those
\* of the copies above that ancestor, whatever their read caches hold, and
\* no ancestor changes.
C30_ForkReadsThroughMutations ==
    [][(/\ last'.op \in {"get", "read"}
        /\ Top > 1
        /\ ~InCaches(Top, Normalize(last'.key))) =>
            LET k == Normalize(last'.key)
                A == MutatedAbove(k)
            IN  /\ IF A # {}
                   THEN /\ last'.res = "Some"
                        /\ last'.val = tcs[Nearest(A)].cache.muts_cached[k]
                        /\ AskedBy(last') = (Nearest(A) + 1)..Top
                   ELSE /\ last'.res = GlobalRead(reader, k).kind
                        /\ last'.val = GlobalRead(reader, k).value
                        /\ AskedBy(last') = 1..Top
                /\ \A j \in 1..(Top - 1) : tcs'[j] = tcs[j]]_vars

\* Witness: a read on a fork of a fork, the URef written with one value in
\* the first copy and another in its fork, answered with the fork's.
C30_Witness ==
    /\ Len(tcs) >= 3
    /\ last.op = "read" /\ last.lvl = Top /\ last.res = "Some"
    /\ tcs[Top - 2].cache.muts_cached[KURef] # None
    /\ tcs[Top - 1].cache.muts_cached[KURef] # None
    /\ tcs[Top - 2].cache.muts_cached[KURef] # tcs[Top - 1].cache.muts_cached[KURef]
    /\ Normalize(last.key) = KURef
    /\ last.val = tcs[Top - 1].cache.muts_cached[KURef]
    /\ tcs[Top].cache.reads_cached = <<Entry(KURef, last.val)>>

----------------------------------------------------------------------------
(* Properties of traps in sub-calls (SpecExec). *)

\* The step traps in a sub-call, on a trap other than Ret.
SubCallTrap == run'.calls = run.calls + 1 /\ Depth > 1 /\ run'.ended = "Trap"

\* The error the host call of the step raises.
Raised ==
    LET c == run'.call
    IN  IF c.mem # "Ok" THEN HostError(c.mem, 0)
        ELSE IF c.fn = "load_arg" THEN HostError("ArgIndexOutOfBounds", c.index)
        ELSE IF c.fn = "serialize_function" THEN HostError("FunctionNotFound", 0)
        ELSE HostError("Storage", 0)

\* The host call of the step, made in a sub-call, raises an error: memory
\* or the bytes read from it refuse, the argument asked for is not there,
\* or the key read has no value.
SubCallRaises ==
    LET c == run'.call
    IN  /\ run'.calls = run.calls + 1 /\ Depth > 1
        /\ \/ c.mem # "Ok" /\ c.fn # "get_uref"
           \/ c.fn = "load_arg" /\ c.index >= Len(Current.args)
           \/ c.fn = "read_value"
                /\ TCRead(reader, tcs, 1, c.key).res.kind # "Some"

\* The trap ended the whole execution in an Err of the error raised, and no
\* Runtime makes a call after it.
TrapEndsExec ==
    /\ SubCallRaises => SubCallTrap
    /\ SubCallTrap =>
            /\ run'.status = "returned"
            /\ run'.outcome.kind = "Err"
            /\ run'.outcome.err = Raised /\ Raised.kind # "Ret"
    /\ run.ended = "Trap" => run' = run

----------------------------------------------------------------------------
(* Properties of new_uref (SpecExec). *)

\* The tracking copy tc holds a value written under key.
HoldsWritten(tc, key) ==
    /\ key \in DOMAIN tc.cache.muts_cached
    /\ tc.cache.muts_cached[key] # None
    /\ tc.ops[key] = "Write"

\* C32: after a new_uref that went through, the fresh URef is among the
\* known_urefs of the Runtime that called, its bytes are in guest memory,
\* and the tracking copy holds the value supplied under it, recorded as a
\* Write.
C32_NewUrefStoresValue ==
    [][ServedStep({"new_uref"}) =>
            LET key == run'.call.key
            IN  /\ key \in run'.stack[Depth].known_urefs
                /\ run'.stack[Depth].memory = KeyToBytes(key)
                /\ HoldsWritten(tcs'[1], Normalize(key))]_vars

----------------------------------------------------------------------------
(* What get and read record (Spec). *)

\* The maps of the copy called are as before the step except at key k.
RecordsOnlyAt(k) ==
    \A j \in AllKeys \ {k} :
        /\ tcs'[Top].ops[j] = tcs[Top].ops[j]
        /\ tcs'[Top].fns[j] = tcs[Top].fns[j]

\* C33: get changes neither ops nor transforms nor the mutation cache; read
\* adds Op::Read and Transform::Identity at the normalized key when it finds
\* a value and then only, and a read that finds none leaves the copy, both
\* caches included, as it was.
C33_GetAndReadRecords ==
    [][/\ last'.op = "get" =>
            /\ tcs'[Top].ops = tcs[Top].ops
            /\ tcs'[Top].fns = tcs[Top].fns
            /\ tcs'[Top].cache.muts_cached = tcs[Top].cache.muts_cached
       /\ (last'.op = "read" /\ last'.res = "Some") =>
            LET k == Normalize(last'.key)
                op == tcs[Top].ops[k]
                fn == tcs[Top].fns[k]
            IN  /\ tcs'[Top].ops[k] =
                        IF op = "Absent" THEN "Read" ELSE OpAdd(op, "Read")
                /\ tcs'[Top].fns[k] =
                        IF fn = NoTransform THEN Identity
                        ELSE TransformAdd(fn, Identity)
                /\ RecordsOnlyAt(k)
                /\ tcs'[Top].cache.muts_cached = tcs[Top].cache.muts_cached
       /\ (last'.op = "read" /\ last'.res # "Some") => tcs' = tcs]_vars

\* Witness: a read of the URef with its access rights found the stored value
\* and recorded Read and Identity at the key without them, the first record
\* of the copy.
C33_Witness ==
    /\ last.op = "read" /\ last.res = "Some" /\ last.key = KURefRW
    /\ tcs[Top].ops = [EmptyOps EXCEPT ![KURef] = "Read"]
    /\ tcs[Top].fns = [EmptyFns EXCEPT ![KURef] = Identity]
    /\ tcs[Top].cache.reads_cached = <<Entry(KURef, last.val)>>

----------------------------------------------------------------------------
(* Properties of the tracking copy of an exec with sub-calls (SpecExec). *)

\* The tracking copy after one call on it.
Replayed(tc, c) ==
    CASE c.fn = "write" -> TCWrite(tc, c.key, c.value)
      [] c.fn = "add" -> TCAdd(reader, <<tc>>, 1, c.key, c.value).tc
      [] c.fn = "read_value" -> TCRead(reader, <<tc>>, 1, c.key).tc

RECURSIVE Replay(_)
\* The tracking copy of exec after the calls of log, first to last.
Replay(log) ==
    IF log = <<>> THEN TrackingCopyNew
    ELSE Replayed(Replay(SubSeq(log, 1, Len(log) - 1)), log[Len(log)])

\* C34: the calls of caller and callees act on one tracking copy in the
\* order they are made: after every step it is what playing them in that
\* order on a new copy gives; a read_value by any Runtime stages what that
\* copy holds, a callee's writes and adds included; and the effect exec
\* returns is that copy's.
C34_SubCallSharesTrackingCopy ==
    [][/\ run'.status # "none" => tcs'[1] = Replay(run'.log)
       /\ ServedStep({"read_value"}) =>
            HostBufAfter(Depth) =
                ValueToBytes(TCRead(reader, <<Replay(run.log)>>, 1,
                                    run'.call.key).res.value)
       /\ run'.outcome.kind = "Ok" =>
            run'.outcome.effect = Effect(Replay(run'.log))]_vars

\* Witness: a callee wrote 5 under the URef and returned; the caller then
\* read the URef and staged the 5.
C34_Witness ==
    /\ Running /\ Depth = 1
    /\ run.log = <<StateCall("write", KURef, IntValue("I32", 5), 2),
                   StateCall("read_value", KURef, None, 1)>>
    /\ Current.host_buf = ValueToBytes(IntValue("I32", 5))
    /\ tcs[1].ops[KURef] = "Write"

----------------------------------------------------------------------------
(* The transforms map holds no Failure (Spec). *)

Additive == AddIntNames \cup {"AddKeys"}

\* C35: whatever reads, writes and adds were made, and whether they
\* succeeded, no transform recorded by any copy is a Failure; and an add
\* that is recorded never puts an additive transform on one of another
\* kind: an add the current value refuses is turned down first.
C35_NoFailureTransform ==
    [][/\ \A i \in 1..Len(tcs'), k \in AllKeys : tcs'[i].fns[k].t # "Failure"
       /\ (last'.op = "add" /\ last'.res = "Success") =>
            LET old == tcs[Top].fns[Normalize(last'.key)]
                new == AddTransform(last'.arg).tr
            IN  (old.t \in Additive /\ new.t \in Additive) => old.t = new.t]_vars

\* Witness: an add of another type than the value written before it was
\* turned down, and the transform at the key is still the Write.
C35_Witness ==
    /\ last.op = "add" /\ last.res = "TypeMismatch"
    /\ tcs[Top].fns[Normalize(last.key)].t = "Write"
    /\ \A k \in AllKeys : tcs[Top].fns[k].t # "Failure"

----------------------------------------------------------------------------
(* The read cache cannot be observed (SpecTwin). *)

\* C36: a copy whose read cache keeps nothing (max_cache_size 0, or 40: one
\* entry) and one whose read cache never evicts, given the same calls over
\* the same reader, return the same for every call and hold the same ops,
\* transforms and mutation cache; the bounded one asks the reader at least
\* as often.
C36_ReadCacheTransparent ==
    /\ twin.last = last
    /\ twin.tc.ops = tcs[1].ops
    /\ twin.tc.fns = tcs[1].fns
    /\ twin.tc.cache.muts_cached = tcs[1].cache.muts_cached
    /\ twin.lookups >= twin.plain

\* Witness: the URef read twice by a copy with max_cache_size 0: both reads
\* returned the stored value, the twin asking the reader twice and keeping
\* nothing, the other copy asking once.
C36_Witness ==
    /\ twin.tc.cache.max_cache_size = 0
    /\ last.op = "read" /\ last.res = "Some" /\ last.val = reader[KURef]
    /\ twin.last = last
    /\ twin.lookups = 2 /\ twin.plain = 1
    /\ twin.tc.cache.reads_cached = <<>>
    /\ tcs[1].cache.reads_cached = <<Entry(KURef, last.val)>>

====
